---- MODULE Spec2Model ----
(***************************************************************************)
(* A model of notebooklm_mcp: the browser client (client.py) with its      *)
(* response extractor, response cleaner and streaming stability monitor,   *)
(* and the FastMCP tool server (server.py) that drives it.                 *)
(*                                                                         *)
(* Text is a sequence of one-character strings, so that length, strip,     *)
(* split and substring tests are computed as Python computes them.         *)
(***************************************************************************)
EXTENDS Integers, Sequences, FiniteSets, TLC

(***************************************************************************)
(* Bounds of the model.                                                    *)
(***************************************************************************)
\* largest max_wait (seconds) a caller of get_response passes
MaxWait == 6
\* largest config.response_stability_checks
MaxStableChecks == 3
\* tool requests the server handles at the same time
NumTasks == 2
\* largest GetResponseRequest.timeout a caller sets, besides the default
MaxTimeout == 2
\* longest scripted sequence of pages a running poll loop is shown before
\* the page settles
MaxScript == 2

(***************************************************************************)
(* Text helpers (Python str operations).                                   *)
(***************************************************************************)
Whitespace == {" ", "\n", "\t"}

RECURSIVE LStrip(_)
LStrip(s) == IF s # <<>> /\ Head(s) \in Whitespace THEN LStrip(Tail(s)) ELSE s

RECURSIVE RStrip(_)
RStrip(s) ==
    IF s # <<>> /\ s[Len(s)] \in Whitespace
    THEN RStrip(SubSeq(s, 1, Len(s) - 1))
    ELSE s

\* str.strip()
Strip(s) == RStrip(LStrip(s))

\* str.endswith(suffix)
EndsWith(s, suffix) ==
    /\ Len(suffix) <= Len(s)
    /\ SubSeq(s, Len(s) - Len(suffix) + 1, Len(s)) = suffix

\* `sub in s`
Contains(s, sub) ==
    \E i \in 0..(Len(s) - Len(sub)) : SubSeq(s, i + 1, i + Len(sub)) = sub

UpperCase == <<"A","B","C","D","E","F","G","H","I","J","K","L","M",
               "N","O","P","Q","R","S","T","U","V","W","X","Y","Z">>
LowerCase == <<"a","b","c","d","e","f","g","h","i","j","k","l","m",
               "n","o","p","q","r","s","t","u","v","w","x","y","z">>

LowerChar(c) ==
    IF \E i \in 1..Len(UpperCase) : UpperCase[i] = c
    THEN LowerCase[CHOOSE i \in 1..Len(UpperCase) : UpperCase[i] = c]
    ELSE c

\* str.lower()
Lower(s) == [i \in 1..Len(s) |-> LowerChar(s[i])]

(***************************************************************************)
(* Sentinel strings.                                                       *)
(***************************************************************************)
\* "No response content found"
NoResponseContentFound ==
    <<"N","o"," ","r","e","s","p","o","n","s","e"," ","c","o","n","t","e",
      "n","t"," ","f","o","u","n","d">>

\* "Response timeout - no content retrieved"
ResponseTimeout ==
    <<"R","e","s","p","o","n","s","e"," ","t","i","m","e","o","u","t"," ",
      "-"," ","n","o"," ","c","o","n","t","e","n","t"," ","r","e","t","r",
      "i","e","v","e","d">>

(***************************************************************************)
(* More str operations: split and join.                                    *)
(***************************************************************************)
\* index of the first occurrence of sep in s, 0 when there is none
Find(s, sep) ==
    IF Contains(s, sep)
    THEN 1 + CHOOSE i \in 0..(Len(s) - Len(sep)) :
                /\ SubSeq(s, i + 1, i + Len(sep)) = sep
                /\ \A j \in 0..(i - 1) : SubSeq(s, j + 1, j + Len(sep)) # sep
    ELSE 0

\* str.split(sep), sep not empty
RECURSIVE Split(_, _)
Split(s, sep) ==
    LET i == Find(s, sep)
    IN  IF i = 0
        THEN <<s>>
        ELSE <<SubSeq(s, 1, i - 1)>> \o Split(SubSeq(s, i + Len(sep), Len(s)), sep)

\* sep.join(parts)
RECURSIVE Join(_, _)
Join(parts, sep) ==
    IF parts = <<>> THEN <<>>
    ELSE IF Len(parts) = 1 THEN parts[1]
    ELSE parts[1] \o sep \o Join(Tail(parts), sep)

NewLine == <<"\n">>
BlankLine == <<"\n", "\n">>
QuestionMark == <<"?">>

(***************************************************************************)
(* Response Cleaner: NotebookLMClient._clean_response_text                 *)
(***************************************************************************)
ui_artifacts == <<
    <<"c","o","p","y","_","a","l","l">>,
    <<"t","h","u","m","b","_","u","p">>,
    <<"t","h","u","m","b","_","d","o","w","n">>,
    <<"s","h","a","r","e">>,
    <<"m","o","r","e","_","o","p","t","i","o","n","s">>,
    <<"l","i","k","e">>,
    <<"d","i","s","l","i","k","e">>
>>

ai_response_indicators == <<
    <<"M","i","x","t","u","r","e","-","o","f","-","E","x","p","e","r","t","s">>,
    <<"B","a","s","e","d"," ","o","n">>,
    <<"A","c","c","o","r","d","i","n","g"," ","t","o">>,
    <<"H","e","r","e","'","s">>,
    <<"L","e","t"," ","m","e">>,
    <<"I"," ","c","a","n">>,
    <<"T","h","e"," ","a","n","s","w","e","r">>,
    <<"T","o"," ","a","n","s","w","e","r">>
>>

\* a line shorter than this that mentions an artifact is dropped; a line
\* longer than this that is no question opens the answer; a cleaning result
\* shorter than this is not accepted
ShortTextLimit == 50
\* a paragraph longer than this is substantial content; a first line
\* shorter than this looks like user input
LongTextLimit == 100

\* for artifact in ui_artifacts: if response_text.endswith(artifact): cut, strip
RECURSIVE StripTrailingArtifacts(_, _)
StripTrailingArtifacts(text, k) ==
    IF k > Len(ui_artifacts) THEN text
    ELSE IF EndsWith(text, ui_artifacts[k])
         THEN StripTrailingArtifacts(
                  Strip(SubSeq(text, 1, Len(text) - Len(ui_artifacts[k]))), k + 1)
         ELSE StripTrailingArtifacts(text, k + 1)

IsArtifactLine(line) ==
    LET line_clean == Lower(Strip(line))
    IN  \/ \E k \in 1..Len(ui_artifacts) : line_clean = ui_artifacts[k]
        \/ /\ \E k \in 1..Len(ui_artifacts) : Contains(line_clean, ui_artifacts[k])
           /\ Len(line_clean) < ShortTextLimit

RECURSIVE DropArtifactLines(_)
DropArtifactLines(lines) ==
    IF lines = <<>> THEN <<>>
    ELSE IF IsArtifactLine(Head(lines)) THEN DropArtifactLines(Tail(lines))
    ELSE <<Head(lines)>> \o DropArtifactLines(Tail(lines))

\* does the line stop the scan for the start of the AI response
OpensAnswer(line) ==
    LET line_clean == Strip(line)
    IN  \/ /\ line_clean # <<>>
           /\ \E k \in 1..Len(ai_response_indicators) :
                  Contains(line_clean, ai_response_indicators[k])
        \/ /\ Len(line_clean) > ShortTextLimit
           /\ ~EndsWith(line_clean, QuestionMark)

\* start_index (0-based as in the code): the first line that opens the
\* answer, 0 when no line does
StartIndex(lines) ==
    IF \E i \in 1..Len(lines) : OpensAnswer(lines[i])
    THEN (CHOOSE i \in 1..Len(lines) :
              /\ OpensAnswer(lines[i])
              /\ \A j \in 1..(i - 1) : ~OpensAnswer(lines[j])) - 1
    ELSE 0

TooShort(text) == text = <<>> \/ Len(text) < ShortTextLimit

\* the first paragraph whose stripped length exceeds 100, else the fallback
FirstSubstantialParagraph(paragraphs, otherwise) ==
    IF \E i \in 1..Len(paragraphs) : Len(Strip(paragraphs[i])) > LongTextLimit
    THEN Strip(paragraphs[CHOOSE i \in 1..Len(paragraphs) :
              /\ Len(Strip(paragraphs[i])) > LongTextLimit
              /\ \A j \in 1..(i - 1) : Len(Strip(paragraphs[j])) <= LongTextLimit])
    ELSE otherwise

\* the function from line 361 on, for a text that is not empty
CleanNonEmpty(input) ==
    LET stripped == StripTrailingArtifacts(input, 1)
        response_text == Strip(Join(DropArtifactLines(Split(stripped, NewLine)), NewLine))
        lines == Split(response_text, NewLine)
        start_index == StartIndex(lines)
        tier3 == Strip(Join(SubSeq(lines, start_index + 1, Len(lines)), NewLine))
        tier4 == IF TooShort(tier3)
                 THEN FirstSubstantialParagraph(Split(response_text, BlankLine), tier3)
                 ELSE tier3
        tier5 == IF TooShort(tier4)
                 THEN IF Len(lines) > 1
                      THEN LET first_line == Strip(lines[1])
                           IN  IF \/ EndsWith(first_line, QuestionMark)
                                  \/ Len(first_line) < LongTextLimit
                               THEN Strip(Join(Tail(lines), NewLine))
                               ELSE response_text
                      ELSE response_text
                 ELSE tier4
    IN  tier5

\* _clean_response_text answering None, not the text, for an empty text
_clean_response_text_NoneOnEmpty(input) ==
    IF input = <<>> THEN <<"None">> ELSE CleanNonEmpty(input)

\* _clean_response_text ending its result with a line break
_clean_response_text_EndsWithNewLine(input) ==
    IF input = <<>> THEN input ELSE CleanNonEmpty(input) \o NewLine

\* an index outside a list is an error of the evaluation, as it is an
\* IndexError in Python
_clean_response_text(input) ==
    IF input = <<>> THEN input ELSE CleanNonEmpty(input)

(***************************************************************************)
(* The page as the browser driver shows it at one instant.  A query       *)
(* (find_elements, then reading the elements) either throws or yields the  *)
(* elements in document order: their visible text for a content query,     *)
(* their is_displayed() for an indicator query.                            *)
(***************************************************************************)
Throws == [throws |-> TRUE, elems |-> <<>>]
Found(elems) == [throws |-> FALSE, elems |-> elems]

response_selectors == <<
    "[data-testid*='response']",
    "[data-testid*='message']",
    "[role='article']",
    "[class*='message']:last-child",
    "[class*='response']:last-child",
    "[class*='chat-message']:last-child",
    ".message:last-child",
    ".chat-bubble:last-child",
    "[class*='ai-response']",
    "[class*='assistant-message']"
>>

indicators == <<
    "[class*='loading']",
    "[class*='typing']",
    "[class*='generating']",
    "[class*='spinner']",
    ".dots"
>>

fallback_skip == <<
    <<"a","s","k"," ","a","b","o","u","t">>,
    <<"l","o","a","d","i","n","g">>,
    <<"e","r","r","o","r">>,
    <<"s","i","g","n"," ","i","n">>,
    <<"m","e","n","u">>,
    <<"c","o","p","y","_","a","l","l">>,
    <<"t","h","u","m","b","_","u","p">>,
    <<"t","h","u","m","b","_","d","o","w","n">>
>>

\* the fallback scan looks at the last 20 "p, div, span" elements
FallbackWindow == 20

\* the driver handle: None or a browser session
NoDriver == "None"
Open == "open"

(***************************************************************************)
(* Text Extractor: NotebookLMClient._get_current_response                  *)
(***************************************************************************)
\* the loop over response_selectors from selector k on; a query that throws
\* is skipped, of the elements found only the last one is read
\* BestOfSelectors where a later candidate of equal length replaces the
\* earlier one
RECURSIVE BestOfSelectors_LaterWinsTies(_, _, _)
BestOfSelectors_LaterWinsTies(page, k, best_response) ==
    IF k > Len(response_selectors) THEN best_response
    ELSE LET q == page.content[k]
         IN  IF q.throws \/ q.elems = <<>>
             THEN BestOfSelectors_LaterWinsTies(page, k + 1, best_response)
             ELSE LET text == Strip(q.elems[Len(q.elems)])
                  IN  IF Len(text) >= Len(best_response)
                      THEN BestOfSelectors_LaterWinsTies(page, k + 1, text)
                      ELSE BestOfSelectors_LaterWinsTies(page, k + 1, best_response)

\* BestOfSelectors reading the first element a selector matched
RECURSIVE BestOfSelectors_ReadsFirstMatch(_, _, _)
BestOfSelectors_ReadsFirstMatch(page, k, best_response) ==
    IF k > Len(response_selectors) THEN best_response
    ELSE LET q == page.content[k]
         IN  IF q.throws \/ q.elems = <<>>
             THEN BestOfSelectors_ReadsFirstMatch(page, k + 1, best_response)
             ELSE LET text == Strip(q.elems[1])
                  IN  IF Len(text) > Len(best_response)
                      THEN BestOfSelectors_ReadsFirstMatch(page, k + 1, text)
                      ELSE BestOfSelectors_ReadsFirstMatch(page, k + 1, best_response)

\* BestOfSelectors where a query that throws ends the loop over the selectors
RECURSIVE BestOfSelectors_StopsAtThrow(_, _, _)
BestOfSelectors_StopsAtThrow(page, k, best_response) ==
    IF k > Len(response_selectors) THEN best_response
    ELSE LET q == page.content[k]
         IN  IF q.throws THEN best_response
             ELSE IF q.elems = <<>>
             THEN BestOfSelectors_StopsAtThrow(page, k + 1, best_response)
             ELSE LET text == Strip(q.elems[Len(q.elems)])
                  IN  IF Len(text) > Len(best_response)
                      THEN BestOfSelectors_StopsAtThrow(page, k + 1, text)
                      ELSE BestOfSelectors_StopsAtThrow(page, k + 1, best_response)

RECURSIVE BestOfSelectors(_, _, _)
BestOfSelectors(page, k, best_response) ==
    IF k > Len(response_selectors) THEN best_response
    ELSE LET q == page.content[k]
         IN  IF q.throws \/ q.elems = <<>>
             THEN BestOfSelectors(page, k + 1, best_response)
             ELSE LET text == Strip(q.elems[Len(q.elems)])
                  IN  IF Len(text) > Len(best_response)
                      THEN BestOfSelectors(page, k + 1, text)
                      ELSE BestOfSelectors(page, k + 1, best_response)

IsSubstantial(text) ==
    /\ Len(text) > ShortTextLimit
    /\ ~\E k \in 1..Len(fallback_skip) : Contains(Lower(text), fallback_skip[k])

\* FallbackScan going through the last 20 elements in document order
FallbackScan_DocumentOrder(page) ==
    LET q == page.generic
        n == Len(q.elems)
        lo == IF n > FallbackWindow THEN n - FallbackWindow + 1 ELSE 1
    IN  IF q.throws THEN <<>>
        ELSE IF \E i \in lo..n : IsSubstantial(Strip(q.elems[i]))
        THEN Strip(q.elems[CHOOSE i \in lo..n :
                 /\ IsSubstantial(Strip(q.elems[i]))
                 /\ \A j \in lo..(i - 1) : ~IsSubstantial(Strip(q.elems[j]))])
        ELSE <<>>

\* reversed(text_elements[-20:]): the first substantial text, "" when the
\* query throws or nothing qualifies
FallbackScan(page) ==
    LET q == page.generic
        n == Len(q.elems)
        lo == IF n > FallbackWindow THEN n - FallbackWindow + 1 ELSE 1
    IN  IF q.throws THEN <<>>
        ELSE IF \E i \in lo..n : IsSubstantial(Strip(q.elems[i]))
        THEN Strip(q.elems[CHOOSE i \in lo..n :
                 /\ IsSubstantial(Strip(q.elems[i]))
                 /\ \A j \in (i + 1)..n : ~IsSubstantial(Strip(q.elems[j]))])
        ELSE <<>>

\* best_response when the cleaner is called: what the selectors gave, or
\* else what the fallback scan gave
RawResponseText(page) ==
    LET selected == BestOfSelectors(page, 1, <<>>)
    IN  IF selected = <<>> THEN FallbackScan(page) ELSE selected

\* an except clause of _get_current_response is entered: a selector query
\* throws, or the fallback scan runs and throws
ExtractionRaises(drv, page) ==
    /\ drv # NoDriver
    /\ \/ \E k \in 1..Len(response_selectors) : page.content[k].throws
       \/ BestOfSelectors(page, 1, <<>>) = <<>> /\ page.generic.throws

\* the WebDriver calls _get_current_response makes: find_elements, and
\* .text of the elements it reads
ExtractorCommands(drv, page) ==
    IF drv = NoDriver THEN {}
    ELSE {"find_elements"} \cup
         (IF \/ \E k \in 1..Len(response_selectors) :
                    ~page.content[k].throws /\ page.content[k].elems # <<>>
             \/ /\ BestOfSelectors(page, 1, <<>>) = <<>>
                /\ ~page.generic.throws
                /\ page.generic.elems # <<>>
          THEN {"text"} ELSE {})

_get_current_response(drv, page) ==
    IF drv = NoDriver THEN <<>>
    ELSE LET best_response == RawResponseText(page)
             cleaned == IF best_response # <<>>
                        THEN _clean_response_text(best_response)
                        ELSE best_response
         IN  IF cleaned # <<>> THEN cleaned ELSE NoResponseContentFound

(***************************************************************************)
(* NotebookLMClient._check_streaming_indicators                            *)
(***************************************************************************)
\* the loop over indicators from indicator k on: "True" at the first
\* displayed element, "raise" when a query throws first
RECURSIVE AnyIndicatorDisplayed(_, _)
AnyIndicatorDisplayed(page, k) ==
    IF k > Len(indicators) THEN "False"
    ELSE LET q == page.busy[k]
         IN  IF q.throws THEN "raise"
             ELSE IF \E i \in 1..Len(q.elems) : q.elems[i] THEN "True"
             ELSE AnyIndicatorDisplayed(page, k + 1)

\* _check_streaming_indicators that takes a failed check for "streaming"
_check_streaming_indicators_FailClosed(drv, page) ==
    IF drv = NoDriver THEN FALSE
    ELSE LET found == AnyIndicatorDisplayed(page, 1)
         IN  IF found = "raise" THEN TRUE ELSE found = "True"

_check_streaming_indicators(drv, page) ==
    IF drv = NoDriver THEN FALSE
    ELSE LET found == AnyIndicatorDisplayed(page, 1)
         IN  IF found = "raise" THEN FALSE ELSE found = "True"

\* the WebDriver calls _check_streaming_indicators makes: find_elements,
\* and is_displayed of the elements found
IndicatorCommands(drv, page) ==
    IF drv = NoDriver THEN {}
    ELSE {"find_elements"} \cup
         (IF \E k \in 1..Len(indicators) :
                 /\ ~page.busy[k].throws /\ page.busy[k].elems # <<>>
                 /\ \A j \in 1..(k - 1) :
                        /\ ~page.busy[j].throws
                        /\ \A i \in 1..Len(page.busy[j].elems) : ~page.busy[j].elems[i]
          THEN {"is_displayed"} ELSE {})

\* the try block of _check_streaming_indicators is left by an exception
IndicatorCheckRaises(drv, page) ==
    drv # NoDriver /\ AnyIndicatorDisplayed(page, 1) = "raise"

(***************************************************************************)
(* Streaming Stability Monitor:                                            *)
(* NotebookLMClient._wait_for_streaming_response                           *)
(***************************************************************************)
\* the locals of one call when the loop is entered
StabilityState(max_wait, required_stable_count) ==
    [pc |-> "polling",
     max_wait |-> max_wait,
     required_stable_count |-> required_stable_count,
     elapsed |-> 0,
     last_response |-> <<>>,
     stable_count |-> 0,
     outcome |-> "none",
     result |-> <<>>]

\* the loop condition off by one: one more pass at the deadline
WithinDeadline_Inclusive(w) == w.elapsed <= w.max_wait

\* while time.time() - start_time < max_wait
WithinDeadline(w) == w.elapsed < w.max_wait

\* PollText counting the first sighting of a text as a stable tick
PollText_CountsFirstSighting(w, current_response) ==
    IF current_response = w.last_response
    THEN [w EXCEPT !.pc = "checking",
                   !.stable_count = @ + 1]
    ELSE [w EXCEPT !.pc = "checking",
                   !.stable_count = 1,
                   !.last_response = current_response]

\* PollText that resets the count on a new text and forgets to store it
PollText_KeepsLastText(w, current_response) ==
    IF current_response = w.last_response
    THEN [w EXCEPT !.pc = "checking",
                   !.stable_count = @ + 1]
    ELSE [w EXCEPT !.stable_count = 0,
                   !.elapsed = @ + 1]

\* PollText that stores a new text and keeps the count it had
PollText_KeepsCount(w, current_response) ==
    IF current_response = w.last_response
    THEN [w EXCEPT !.pc = "checking",
                   !.stable_count = @ + 1]
    ELSE [w EXCEPT !.last_response = current_response,
                   !.elapsed = @ + 1]

\* first half of a pass of the loop: current_response is what
\* _get_current_response returned, it is compared with the last text;
\* time.sleep(1) ends the pass, and time is counted in these sleeps
PollText(w, current_response) ==
    IF current_response = w.last_response
    THEN [w EXCEPT !.pc = "checking",
                   !.stable_count = @ + 1]
    ELSE [w EXCEPT !.stable_count = 0,
                   !.last_response = current_response,
                   !.elapsed = @ + 1]

\* CheckIndicators completing on text stability alone
CheckIndicators_IgnoresIndicator(w, is_streaming) ==
    IF w.stable_count >= w.required_stable_count
    THEN [w EXCEPT !.pc = "returned",
                   !.outcome = "complete",
                   !.result = w.last_response]
    ELSE [w EXCEPT !.pc = "polling", !.elapsed = @ + 1]

\* second half of a pass, when the text was stable: is_streaming is what
\* _check_streaming_indicators returned
CheckIndicators(w, is_streaming) ==
    IF ~is_streaming /\ w.stable_count >= w.required_stable_count
    THEN [w EXCEPT !.pc = "returned",
                   !.outcome = "complete",
                   !.result = w.last_response]
    ELSE [w EXCEPT !.pc = "polling", !.elapsed = @ + 1]

\* TimeoutReturn that always reports the timeout sentinel
TimeoutReturn_AlwaysSentinel(w) ==
    [w EXCEPT !.pc = "returned",
              !.outcome = "timeout",
              !.result = ResponseTimeout]

\* after the loop: the deadline has passed
TimeoutReturn(w) ==
    [w EXCEPT !.pc = "returned",
              !.outcome = "timeout",
              !.result = IF w.last_response # <<>>
                         THEN w.last_response
                         ELSE ResponseTimeout]

(***************************************************************************)
(* Pages the browser may show when it is queried.                          *)
(***************************************************************************)
TextA == <<"H","i">>
TextB == <<"H","i"," ","t","h","e","r","e">>

NothingFound == [k \in 1..Len(response_selectors) |-> Found(<<>>)]
AllThrow == [k \in 1..Len(response_selectors) |-> Throws]

\* the response as the only match of the first selector
ContentA == [NothingFound EXCEPT ![1] = Found(<<TextA>>)]
\* a longer response, padded, as the last match of the third selector
ContentB == [NothingFound EXCEPT ![3] = Found(<<TextA, <<" ">> \o TextB \o <<"\n">> >>)]

\* the first selector's query throws, the third finds the response
ContentAfterThrow == [ContentB EXCEPT ![1] = Throws]

Contents ==
    {[content |-> NothingFound, generic |-> Found(<<>>)],
     [content |-> ContentAfterThrow, generic |-> Found(<<TextA>>)],
     [content |-> ContentA, generic |-> Found(<<TextA>>)],
     [content |-> ContentB, generic |-> Found(<<TextA, TextB>>)],
     [content |-> AllThrow, generic |-> Throws]}

NoIndicator == [k \in 1..Len(indicators) |-> Found(<<>>)]

BusyStates ==
    {NoIndicator,
     \* a hidden spinner only
     [NoIndicator EXCEPT ![4] = Found(<<FALSE>>)],
     \* a visible typing indicator
     [NoIndicator EXCEPT ![2] = Found(<<FALSE, TRUE>>)],
     \* the first indicator query throws
     [NoIndicator EXCEPT ![1] = Throws]}

Pages ==
    {[content |-> c.content, generic |-> c.generic, busy |-> b] :
        c \in Contents, b \in BusyStates}

(***************************************************************************)
(* State.                                                                  *)
(***************************************************************************)
VARIABLES
    driver,              \* NotebookLMClient.driver
    _is_authenticated,   \* NotebookLMClient._is_authenticated
    current_notebook_id, \* NotebookLMClient.current_notebook_id
    config,              \* ServerConfig
    closing,             \* position of a close() call
    call,                \* the get_response call of the client's user
    trace,               \* what that call has observed so far
    client,              \* NotebookLMFastMCP.client
    task,                \* the tool requests the server is handling
    argument,            \* the argument of a function called on its own
    returned,            \* what that function has returned so far
    cli                  \* the command the command line runs (cli.py)

vars == <<driver, _is_authenticated, current_notebook_id, config, closing,
          call, trace, client, task, argument, returned, cli>>

\* the part of the state for a function called on its own
callVars == <<argument, returned>>
\* no function is called on its own
NoCall == [fn |-> "None"]
\* no command runs
NoCommand == [command |-> "None"]

\* the server's part of the state
serverVars == <<client, task>>

\* Python's None for an optional string or object
None == "None"
Notebooks == {"nb1", "nb2"}
Tasks == 1..NumTasks

\* a task slot of the event loop that handles no request
IdleTask ==
    [pc |-> "idle", tool |-> None, timeout |-> 0, notebook_id |-> None,
     ensured |-> FALSE, max_wait |-> 0, outcome |-> "none",
     response |-> <<>>, polls |-> 0]

IdleCall == [StabilityState(0, 0) EXCEPT !.pc = "idle"]
\* query_raised: an extraction of the call has entered an except clause;
\* check_raised: the last indicator check has; commands: the WebDriver
\* methods the call has invoked
NoTrace == [ticks |-> <<>>, driver_absent |-> FALSE,
            query_raised |-> FALSE, check_raised |-> FALSE, commands |-> {}]

\* NotebookLMClient.__init__, for each configuration
Init ==
    /\ driver = NoDriver
    /\ _is_authenticated = FALSE
    /\ config \in [response_stability_checks : 1..MaxStableChecks,
                    default_notebook_id : {None}]
    /\ current_notebook_id = config.default_notebook_id
    /\ closing = "idle"
    /\ call = IdleCall
    /\ trace = NoTrace
    /\ client = None
    /\ task = [t \in Tasks |-> IdleTask]
    /\ argument = NoCall
    /\ returned = NoCall
    /\ cli = NoCommand

\* NotebookLMClient.start / _start_browser, the browser comes up; the user
\* of the client starts it between two get_response calls, not during one
start ==
    /\ driver = NoDriver
    /\ call.pc \in {"idle", "returned"}
    /\ driver' = Open
    /\ UNCHANGED <<_is_authenticated, current_notebook_id, config, closing, call, trace, serverVars, callVars, cli>>

\* NotebookLMClient.get_response, up to the dispatch to the executor
get_response(wait_for_completion, max_wait) ==
    /\ call.pc = "idle"
    /\ IF driver = NoDriver
       THEN call' = [call EXCEPT !.pc = "returned", !.outcome = "ChatError"]
       ELSE IF wait_for_completion
       THEN call' = StabilityState(max_wait, config.response_stability_checks)
       ELSE call' = [call EXCEPT !.pc = "extracting"]
    /\ trace' = [NoTrace EXCEPT !.driver_absent = (driver = NoDriver)]
    /\ UNCHANGED <<driver, _is_authenticated, current_notebook_id, config, closing, serverVars, callVars, cli>>

\* wait_for_completion=False: one extraction in the executor
Extract(page) ==
    /\ call.pc = "extracting"
    /\ call' = [call EXCEPT !.pc = "returned",
                            !.outcome = "extracted",
                            !.result = _get_current_response(driver, page)]
    /\ trace' = [trace EXCEPT !.driver_absent = @ \/ driver = NoDriver,
                              !.query_raised = ExtractionRaises(driver, page),
                              !.commands = ExtractorCommands(driver, page)]
    /\ UNCHANGED <<driver, _is_authenticated, current_notebook_id, config, closing, serverVars, callVars, cli>>

\* Poll that first loads the notebook page again when the last extraction
\* failed
Poll_Renavigates(page) ==
    /\ call.pc = "polling"
    /\ WithinDeadline(call)
    /\ \E current_response \in {_get_current_response(driver, page)} :
           /\ call' = PollText(call, current_response)
           /\ trace' = [ticks |-> Append(trace.ticks,
                                   [text |-> current_response,
                                    streaming |-> "unchecked"]),
                        driver_absent |-> trace.driver_absent \/ driver = NoDriver,
                        query_raised |-> trace.query_raised
                                             \/ ExtractionRaises(driver, page),
                        check_raised |-> FALSE,
                        commands |-> trace.commands \cup ExtractorCommands(driver, page)
                                         \cup (IF trace.query_raised THEN {"get"} ELSE {})]
    /\ UNCHANGED <<driver, _is_authenticated, current_notebook_id, config, closing, serverVars, callVars, cli>>

\* one pass of the while loop up to the comparison of the texts
Poll(page) ==
    /\ call.pc = "polling"
    /\ WithinDeadline(call)
    /\ \E current_response \in {_get_current_response(driver, page)} :
           /\ call' = PollText(call, current_response)
           /\ trace' = [ticks |-> Append(trace.ticks,
                                   [text |-> current_response,
                                    streaming |-> "unchecked"]),
                        driver_absent |-> trace.driver_absent \/ driver = NoDriver,
                        query_raised |-> trace.query_raised
                                             \/ ExtractionRaises(driver, page),
                        check_raised |-> FALSE,
                        commands |-> trace.commands \cup ExtractorCommands(driver, page)]
    /\ UNCHANGED <<driver, _is_authenticated, current_notebook_id, config, closing, serverVars, callVars, cli>>

\* the rest of the pass when the text was stable
Check(page) ==
    /\ call.pc = "checking"
    /\ \E is_streaming \in {_check_streaming_indicators(driver, page)} :
           /\ call' = CheckIndicators(call, is_streaming)
           /\ trace' = [ticks |-> [trace.ticks EXCEPT ![Len(trace.ticks)].streaming =
                                   IF is_streaming THEN "True" ELSE "False"],
                        driver_absent |-> trace.driver_absent \/ driver = NoDriver,
                        query_raised |-> trace.query_raised,
                        check_raised |-> IndicatorCheckRaises(driver, page),
                        commands |-> trace.commands \cup IndicatorCommands(driver, page)]
    /\ UNCHANGED <<driver, _is_authenticated, current_notebook_id, config, closing, serverVars, callVars, cli>>

\* the loop condition fails
Timeout ==
    /\ call.pc = "polling"
    /\ ~WithinDeadline(call)
    /\ call' = TimeoutReturn(call)
    /\ UNCHANGED <<driver, _is_authenticated, current_notebook_id, config, closing, trace, serverVars, callVars, cli>>

\* the caller takes the result; the client is free for the next call
Return ==
    /\ call.pc = "returned"
    /\ call' = IdleCall
    /\ trace' = NoTrace
    /\ UNCHANGED <<driver, _is_authenticated, current_notebook_id, config, closing, serverVars, callVars, cli>>

\* NotebookLMClient.close up to the await of driver.quit
CloseBegin ==
    /\ closing = "idle"
    /\ driver # NoDriver
    /\ closing' = "quitting"
    /\ UNCHANGED <<driver, _is_authenticated, current_notebook_id, config, call, trace, serverVars, callVars, cli>>

\* NotebookLMClient.close after driver.quit has returned
CloseEnd ==
    /\ closing = "quitting"
    /\ driver' = NoDriver
    /\ _is_authenticated' = FALSE
    /\ closing' = "idle"
    /\ UNCHANGED <<current_notebook_id, config, call, trace, serverVars, callVars, cli>>

Next ==
    \/ start
    \/ \E wait_for_completion \in BOOLEAN, max_wait \in 0..MaxWait :
           get_response(wait_for_completion, max_wait)
    \/ \E page \in Pages : Extract(page)
    \/ \E page \in Pages : Poll(page)
    \/ \E page \in Pages : Check(page)
    \/ Timeout
    \/ Return
    \/ CloseBegin
    \/ CloseEnd

Spec == Init /\ [][Next]_vars

(***************************************************************************)
(* The FastMCP server (server.py).  The tools are coroutines of one event  *)
(* loop: a handler runs without interruption up to its next await of an    *)
(* executor job, and the jobs (start, navigation, poll loop) run in pool   *)
(* threads side by side.  The server never calls authenticate().           *)
(***************************************************************************)
\* get_response(self, wait_for_completion=True, max_wait=60)
DefaultMaxWait == 60
\* GetResponseRequest.timeout = Field(30, ...)
DefaultTimeout == 30

Timeouts == (1..MaxTimeout) \cup {DefaultTimeout}

Tools == {"send_chat_message", "get_chat_response", "get_quick_response",
          "chat_with_notebook", "navigate_to_notebook"}

\* the requests a tool accepts
Requests(tool) ==
    CASE tool = "get_chat_response" ->
             {[timeout |-> T, notebook_id |-> None] : T \in Timeouts}
      [] tool = "chat_with_notebook" ->
             {[timeout |-> 0, notebook_id |-> n] : n \in Notebooks \cup {None}}
      [] tool = "navigate_to_notebook" ->
             {[timeout |-> 0, notebook_id |-> n] : n \in Notebooks}
      [] OTHER -> {[timeout |-> 0, notebook_id |-> None]}

\* the pages a poll loop of the server is shown: one per tick, the last
\* one for all later ticks
ServerPages ==
    {pg \in Pages : /\ pg.content \in {NothingFound, ContentA}
                    /\ pg.busy \in {NoIndicator, [NoIndicator EXCEPT ![2] = Found(<<FALSE, TRUE>>)]}}
Scripts == UNION {[1..n -> ServerPages] : n \in 1..MaxScript}

\* the one element of a singleton set
Only(S) == CHOOSE x \in S : TRUE

\* what the two queries of a pass return on a page
Observe(drv, page) ==
    [text |-> _get_current_response(drv, page),
     streaming |-> _check_streaming_indicators(drv, page)]

\* one step of _wait_for_streaming_response on scripted observations: half
\* a pass of the loop, or the return after it; polls counts the polls made
LoopStepOn(run) ==
    LET w == run.w
        seen == Head(run.script)
        rest == IF Len(run.script) > 1 THEN Tail(run.script) ELSE run.script
    IN  IF w.pc = "returned" THEN run
        ELSE IF w.pc = "checking"
        THEN [run EXCEPT !.w = CheckIndicators(w, seen.streaming),
                         !.script = rest]
        ELSE IF WithinDeadline(w)
        THEN Only({[w |-> polled,
                    script |-> IF polled.pc = "checking" THEN run.script ELSE rest,
                    polls |-> run.polls + 1] :
                       polled \in {PollText(w, seen.text)}})
        ELSE [run EXCEPT !.w = TimeoutReturn(w)]

\* n steps of the loop, n >= 1; a run that has returned stays as it is
RECURSIVE Iterate(_, _)
Iterate(n, run) ==
    IF n = 1
    THEN Only({LoopStepOn(r) : r \in {run}})
    ELSE Only({IF half.w.pc = "returned"
               THEN half
               ELSE Iterate(n - (n \div 2), half) :
                   half \in {Iterate(n \div 2, run)}})

\* _wait_for_streaming_response run to its return on the pages of a
\* script: no run takes more than two steps per second of max_wait and one
\* to return
RunLoop(state, drv, script) ==
    Only({Iterate(2 * state.max_wait + 1,
                  [w |-> state, script |-> observations, polls |-> 0]) :
              observations \in {[i \in 1..Len(script) |-> Observe(drv, script[i])]}})

\* the handler's except clause: the tool call ends with NotebookLMError
Fail(rec, error) == [rec EXCEPT !.pc = "done", !.outcome = error]
\* the handler returns its result
Succeed(rec) == [rec EXCEPT !.pc = "done", !.outcome = "success"]

\* client.send_message up to the dispatch of _send_message_sync
send_message(rec, drv, authenticated) ==
    IF drv = NoDriver \/ ~authenticated
    THEN Fail(rec, "ChatError: Not authenticated or browser not ready")
    ELSE [rec EXCEPT !.pc = "sending"]

\* the max_wait get_chat_response calls client.get_response with:
\* self.client.get_response() takes no argument from the request
get_chat_response_max_wait(rec) == DefaultMaxWait

\* self.client.get_response() of a tool, up to the dispatch of the poll loop
tool_get_response(rec, drv) ==
    IF drv = NoDriver
    THEN Fail(rec, "ChatError: Browser not ready")
    ELSE [rec EXCEPT !.pc = "waiting",
                     !.max_wait = IF rec.tool = "get_chat_response"
                                  THEN get_chat_response_max_wait(rec)
                                  ELSE DefaultMaxWait]

\* client.navigate_to_notebook up to the dispatch of the navigation
navigate_to_notebook(rec, drv) ==
    IF drv = NoDriver
    THEN Fail(rec, "NavigationError: Browser not started")
    ELSE [rec EXCEPT !.pc = "navigating"]

\* a tool's handler from the return of _ensure_client to its next await
AfterEnsure(rec, drv, authenticated) ==
    LET ensured == [rec EXCEPT !.ensured = TRUE]
    IN  CASE rec.tool = "send_chat_message" ->
                 send_message(ensured, drv, authenticated)
          [] rec.tool = "get_chat_response" ->
                 tool_get_response(ensured, drv)
          [] rec.tool = "get_quick_response" ->
                 tool_get_response(ensured, drv)
          [] rec.tool = "chat_with_notebook" ->
                 IF rec.notebook_id # None
                 THEN navigate_to_notebook(ensured, drv)
                 ELSE send_message(ensured, drv, authenticated)
          [] rec.tool = "navigate_to_notebook" ->
                 navigate_to_notebook(ensured, drv)

\* a tool's handler from the return of the navigation to its next await
AfterNavigate(rec, drv, authenticated) ==
    IF rec.tool = "chat_with_notebook"
    THEN send_message(rec, drv, authenticated)
    ELSE Succeed(rec)

\* NotebookLMFastMCP.__init__
ServerInit ==
    /\ driver = NoDriver
    /\ _is_authenticated = FALSE
    /\ config \in [response_stability_checks : 1..MaxStableChecks,
                   default_notebook_id : {None, "nb1"}]
    /\ current_notebook_id = config.default_notebook_id
    /\ closing = "idle"
    /\ call = IdleCall
    /\ trace = NoTrace
    /\ client = None
    /\ task = [t \in Tasks |-> IdleTask]
    /\ argument = NoCall
    /\ returned = NoCall
    /\ cli = NoCommand

\* Request with the poll loop run on the event loop's own thread: no
\* handler starts while a loop polls
Request_AfterPollLoop(t, tool, request) ==
    /\ task[t].pc = "idle"
    /\ \A other \in Tasks : task[other].pc # "waiting"
    /\ LET rec == [IdleTask EXCEPT !.tool = tool,
                                   !.timeout = request.timeout,
                                   !.notebook_id = request.notebook_id]
       IN  IF client = None
           THEN /\ client' = "NotebookLMClient"
                /\ driver' = NoDriver
                /\ _is_authenticated' = FALSE
                /\ current_notebook_id' = config.default_notebook_id
                /\ task' = [task EXCEPT ![t] = [rec EXCEPT !.pc = "starting"]]
           ELSE /\ task' = [task EXCEPT ![t] = AfterEnsure(rec, driver, _is_authenticated)]
                /\ UNCHANGED <<client, driver, _is_authenticated, current_notebook_id>>
    /\ UNCHANGED <<config, closing, callVars, cli, call, trace>>

\* a tool request arrives: the handler runs _ensure_client, which creates
\* the client and awaits start() when there is none yet, and else goes on
Request(t, tool, request) ==
    /\ task[t].pc = "idle"
    /\ LET rec == [IdleTask EXCEPT !.tool = tool,
                                   !.timeout = request.timeout,
                                   !.notebook_id = request.notebook_id]
       IN  IF client = None
           THEN /\ client' = "NotebookLMClient"
                /\ driver' = NoDriver
                /\ _is_authenticated' = FALSE
                /\ current_notebook_id' = config.default_notebook_id
                /\ task' = [task EXCEPT ![t] = [rec EXCEPT !.pc = "starting"]]
           ELSE /\ task' = [task EXCEPT ![t] = AfterEnsure(rec, driver, _is_authenticated)]
                /\ UNCHANGED <<client, driver, _is_authenticated, current_notebook_id>>
    /\ UNCHANGED <<config, closing, callVars, cli, call, trace>>

\* _start_browser has run in the executor: the driver is set, or start()
\* raised and _ensure_client raises NotebookLMError
StartDone(t, ok) ==
    /\ task[t].pc = "starting"
    /\ IF ok
       THEN /\ driver' = Open
            /\ task' = [task EXCEPT ![t] = AfterEnsure(task[t], Open, _is_authenticated)]
       ELSE /\ driver' = driver
            /\ task' = [task EXCEPT ![t] =
                            Fail(task[t], "NotebookLMError: Client initialization failed")]
    /\ UNCHANGED <<_is_authenticated, current_notebook_id, config, closing, callVars, cli,
                   call, trace, client>>

\* _navigate_to_notebook_sync has run in the executor
NavigateDone(t, ok) ==
    /\ task[t].pc = "navigating"
    /\ IF ok
       THEN /\ current_notebook_id' = task[t].notebook_id
            /\ task' = [task EXCEPT ![t] =
                            AfterNavigate(task[t], driver, _is_authenticated)]
       ELSE /\ current_notebook_id' = current_notebook_id
            /\ task' = [task EXCEPT ![t] =
                            Fail(task[t], "NavigationError: Failed to navigate")]
    /\ UNCHANGED <<driver, _is_authenticated, config, closing, callVars, cli, call, trace, client>>

\* _wait_for_streaming_response has run in the executor
WaitDone(t, script) ==
    /\ task[t].pc = "waiting"
    /\ \E run \in {RunLoop(StabilityState(task[t].max_wait,
                                           config.response_stability_checks),
                            driver, script)} :
           task' = [task EXCEPT ![t] =
                        [Succeed(task[t]) EXCEPT !.response = run.w.result,
                                                 !.polls = run.polls]]
    /\ UNCHANGED <<driver, _is_authenticated, current_notebook_id, config,
                   closing, callVars, cli, call, trace, client>>

\* the reply is sent; the slot takes the next request
Reply(t) ==
    /\ task[t].pc = "done"
    /\ task' = [task EXCEPT ![t] = IdleTask]
    /\ UNCHANGED <<driver, _is_authenticated, current_notebook_id, config,
                   closing, callVars, cli, call, trace, client>>

ServerNext ==
    \/ \E t \in Tasks, tool \in Tools : \E request \in Requests(tool) :
           Request(t, tool, request)
    \/ \E t \in Tasks, ok \in BOOLEAN : StartDone(t, ok)
    \/ \E t \in Tasks, ok \in BOOLEAN : NavigateDone(t, ok)
    \/ \E t \in Tasks, script \in Scripts : WaitDone(t, script)
    \/ \E t \in Tasks : Reply(t)

ServerSpec == ServerInit /\ [][ServerNext]_vars


(***************************************************************************)
(* The executor thread that runs the poll loop is scheduled until the      *)
(* loop returns.                                                           *)
(***************************************************************************)
LoopStep ==
    \/ \E page \in Pages : Extract(page)
    \/ \E page \in Pages : Poll(page)
    \/ \E page \in Pages : Check(page)
    \/ Timeout

LiveSpec == Spec /\ WF_vars(LoopStep)

(***************************************************************************)
(* The pure functions of the package called on their own: the argument is  *)
(* drawn from a set of inputs and the function is applied to it.           *)
(***************************************************************************)
\* a response of four sentences, long enough for the fallback scan
Sentence == <<"T","h","e"," ","s","k","y"," ","i","s"," ","b","l","u","e","."," ">>
Prose == Sentence \o Sentence \o Sentence \o Sentence

\* what one selector query may give in a snapshot
SelectorResults ==
    {Found(<<>>),
     Throws,
     Found(<< <<"a","b">> >>),
     Found(<< <<"c","d">> >>),
     Found(<< <<"x","y","z">> >>),
     \* an older, longer message before the latest one, which is padded
     Found(<< <<"a","b","c","d">>, <<" ","x","y","\n">> >>),
     \* an element without visible text
     Found(<< <<" "," "," ">> >>)}

\* snapshots where the first, the third and the last selector match
Snapshots ==
    {[content |-> [NothingFound EXCEPT ![1] = r1, ![3] = r3,
                                       ![Len(response_selectors)] = r10],
      generic |-> g,
      busy |-> NoIndicator] :
        r1 \in SelectorResults, r3 \in SelectorResults, r10 \in SelectorResults,
        g \in {Found(<<>>), Found(<<Prose>>)}}

\* texts of "p, div, span" elements: a second long text, a padded text of
\* exactly 50 characters, one of 51, a long text that asks to Sign In, a
\* short caption
Other == [i \in 1..56 |-> <<"W","a","t","e","r"," ","i","s"," ","w","e","t","."," ">>[((i - 1) % 14) + 1]]
PaddedFifty == <<" ">> \o [i \in 1..50 |-> "z"] \o <<" ">>
FiftyOne == [i \in 1..51 |-> "z"]
Denied == <<"P","l","e","a","s","e"," ","S","i","g","n"," ","I","n",":"," ">> \o Prose
Caption == <<"o","k">>
ElementTexts == {Prose, Other, PaddedFifty, FiftyOne, Denied, Caption}

\* what the "p, div, span" query may give: at most two of these texts at
\* the end of the page, after none, 19 or 20 captions, after at most one
\* long text
GenericResults ==
    {Throws} \cup
    {Found(front \o [i \in 1..pad |-> Caption] \o last) :
        front \in {<<>>, <<Other>>},
        pad \in {0, FallbackWindow - 1, FallbackWindow},
        last \in {<<>>} \cup {<<a>> : a \in ElementTexts}
                       \cup {<<a, b>> : a \in ElementTexts, b \in ElementTexts}}

\* snapshots for the fallback scan: no selector matches, one matches a
\* text, one matches an element without visible text, all queries throw
FallbackSnapshots ==
    {[content |-> c, generic |-> g, busy |-> NoIndicator] :
        c \in {NothingFound,
               [NothingFound EXCEPT ![1] = Found(<< <<"a","b">> >>)],
               [NothingFound EXCEPT ![3] = Found(<< <<" "," "," ">> >>)],
               AllThrow},
        g \in GenericResults}

\* lines a response text is made of
Question == <<"W","h","y","?">>
Answer == <<"B","a","s","e","d"," ","o","n"," ","X",".">>
LongAnswer == <<"B","a","s","e","d"," ","o","n"," ">> \o Prose
Yes == <<"Y","e","s">>
Indent == [i \in 1..90 |-> " "]
\* an answer that mentions a word of the captions
Liked == <<"B","a","s","e","d"," ","o","n"," ","l","i","k","e","s",".">>
BodyLines == {Question, Answer, LongAnswer, Yes, Indent \o Answer, Liked, <<>>}

\* the captions of the action buttons under a response, one per line
Trailers ==
    {<<>>,
     << ui_artifacts[1] >>,
     << ui_artifacts[1], ui_artifacts[2] >>,
     << <<" ">> \o ui_artifacts[4] >>}

\* at most this many lines before the captions
MaxLines == 3

\* response texts: some lines, then the captions
Texts ==
    {Join(body \o trailer, NewLine) :
        body \in UNION {[1..n -> BodyLines] : n \in 0..MaxLines},
        trailer \in Trailers}
    \cup {<<" "," ">>, <<" ","\n","\t">>}

(***************************************************************************)
(* cli.extract_notebook_id                                                 *)
(***************************************************************************)
\* [a-f0-9-]
IdCharacters == {"a","b","c","d","e","f","0","1","2","3","4","5","6","7","8","9","-"}
\* {36}
IdLength == 36

\* the text before the group in each pattern, in the order of the list
patterns == <<
    <<"h","t","t","p","s",":","/","/","n","o","t","e","b","o","o","k","l",
      "m",".","g","o","o","g","l","e",".","c","o","m","/","n","o","t","e",
      "b","o","o","k","/">>,
    <<"n","o","t","e","b","o","o","k","l","m",".","g","o","o","g","l","e",
      ".","c","o","m","/","n","o","t","e","b","o","o","k","/">>,
    <<>>
>>

\* "Invalid NotebookLM URL or ID: "
InvalidUrlOrId ==
    <<"I","n","v","a","l","i","d"," ","N","o","t","e","b","o","o","k","L",
      "M"," ","U","R","L"," ","o","r"," ","I","D",":"," ">>

\* ([a-f0-9-]{36}) matches at position i of the text
GroupAt(url, i) ==
    /\ i + IdLength - 1 <= Len(url)
    /\ \A j \in i..(i + IdLength - 1) : url[j] \in IdCharacters

\* the pattern matches at position i of the text
MatchAt(pattern, url, i) ==
    /\ i + Len(pattern) - 1 <= Len(url)
    /\ SubSeq(url, i, i + Len(pattern) - 1) = pattern
    /\ GroupAt(url, i + Len(pattern))

\* re.search(pattern, url): the positions of the matches; re.search takes
\* the leftmost
Matches(pattern, url) == {i \in 1..Len(url) : MatchAt(pattern, url, i)}

\* match.group(1) of the leftmost match of the pattern
Group1(pattern, url) ==
    LET i == CHOOSE i \in Matches(pattern, url) :
                 \A j \in Matches(pattern, url) : i <= j
    IN  SubSeq(url, i + Len(pattern), i + Len(pattern) + IdLength - 1)

\* the loop over the patterns taking the last pattern that matches
RECURSIVE extract_notebook_id_from_LastPattern(_, _)
extract_notebook_id_from_LastPattern(url, k) ==
    IF k > Len(patterns)
    THEN [raised |-> "ValueError", value |-> InvalidUrlOrId \o url]
    ELSE LET later == extract_notebook_id_from_LastPattern(url, k + 1)
         IN  IF later.raised = "None" THEN later
             ELSE IF Matches(patterns[k], url) # {}
             THEN [raised |-> "None", value |-> Group1(patterns[k], url)]
             ELSE later

\* the loop over the patterns from pattern k on, and the raise after it
RECURSIVE extract_notebook_id_from(_, _)
extract_notebook_id_from(url, k) ==
    IF k > Len(patterns)
    THEN [raised |-> "ValueError", value |-> InvalidUrlOrId \o url]
    ELSE IF Matches(patterns[k], url) # {}
    THEN [raised |-> "None", value |-> Group1(patterns[k], url)]
    ELSE extract_notebook_id_from(url, k + 1)

extract_notebook_id(url) == extract_notebook_id_from(url, 1)

\* notebook ids: the one of the tests, another one, one in capitals, one
\* that is too short, one followed by more id characters, and dashes only
NotebookId ==
    <<"1","2","3","e","4","5","6","7","-","e","8","9","b","-","1","2","d",
      "3","-","a","4","5","6","-","4","2","6","6","1","4","1","7","4","0",
      "0","0">>
OtherId ==
    <<"4","7","4","1","9","5","7","b","-","f","3","5","8","-","4","8","f",
      "b","-","a","1","6","a","-","d","a","8","d","2","0","7","9","7","b",
      "c","6">>
CapitalId ==
    <<"1","2","3","E","4","5","6","7","-","E","8","9","B","-","1","2","D",
      "3","-","A","4","5","6","-","4","2","6","6","1","4","1","7","4","0",
      "0","0">>
ShortId == SubSeq(NotebookId, 1, IdLength - 1)
Ids == {NotebookId, OtherId, CapitalId, ShortId, NotebookId \o <<"a","b">>,
        [i \in 1..IdLength |-> "-"], <<>>}

ExampleUrl ==
    <<"h","t","t","p","s",":","/","/","e","x","a","m","p","l","e",".","c",
      "o","m","/">>

\* what the user may give for NOTEBOOK_URL
Urls ==
    {before \o id \o after :
        before \in {<<>>, patterns[1], patterns[2], ExampleUrl, OtherId \o <<" ">>,
                    OtherId \o <<" ">> \o patterns[1],
                    <<"h","t","t","p",":","/","/">> \o patterns[2],
                    ShortId \o <<"/">> \o patterns[1]},
        id \in Ids,
        after \in {<<>>, <<"/">>, <<"?","a","=","1">>, <<" ">> \o patterns[1] \o OtherId}}

CallInit ==
    /\ driver = NoDriver
    /\ _is_authenticated = FALSE
    /\ config \in [response_stability_checks : {1}, default_notebook_id : {None}]
    /\ current_notebook_id = config.default_notebook_id
    /\ closing = "idle"
    /\ call = IdleCall
    /\ trace = NoTrace
    /\ client = None
    /\ task = [t \in Tasks |-> IdleTask]
    /\ argument \in [fn : {"_get_current_response"},
                     page : Snapshots \cup FallbackSnapshots]
                  \cup [fn : {"_clean_response_text"}, text : Texts]
                  \cup [fn : {"extract_notebook_id"}, url : Urls]
    /\ returned = NoCall
    /\ cli = NoCommand

\* _get_current_response on a snapshot, the driver being there: the text
\* handed to the cleaner and the text returned
CallExtract ==
    /\ returned = NoCall
    /\ argument.fn = "_get_current_response"
    /\ returned' = [fn |-> argument.fn,
                    raw |-> RawResponseText(argument.page),
                    value |-> _get_current_response(Open, argument.page)]
    /\ UNCHANGED <<driver, _is_authenticated, current_notebook_id, config,
                   closing, call, trace, serverVars, argument, cli>>

\* _clean_response_text on a text
CallClean ==
    /\ returned = NoCall
    /\ argument.fn = "_clean_response_text"
    /\ returned' = [fn |-> argument.fn,
                    value |-> _clean_response_text(argument.text),
                    twice |-> <<>>]
    /\ UNCHANGED <<driver, _is_authenticated, current_notebook_id, config,
                   closing, call, trace, serverVars, argument, cli>>

\* _clean_response_text on the text it has returned
CallCleanAgain ==
    /\ returned.fn = "_clean_response_text"
    /\ returned.twice = <<>>
    /\ returned' = [returned EXCEPT !.twice = << _clean_response_text(returned.value) >>]
    /\ UNCHANGED <<driver, _is_authenticated, current_notebook_id, config,
                   closing, call, trace, serverVars, argument, cli>>

\* extract_notebook_id on what the user gave
CallExtractId ==
    /\ returned = NoCall
    /\ argument.fn = "extract_notebook_id"
    /\ returned' = [fn |-> argument.fn, result |-> extract_notebook_id(argument.url)]
    /\ UNCHANGED <<driver, _is_authenticated, current_notebook_id, config,
                   closing, call, trace, serverVars, argument, cli>>

CallNext ==
    \/ CallExtractId
    \/ CallExtract
    \/ CallClean
    \/ CallCleanAgain

CallSpec == CallInit /\ [][CallNext]_vars

(***************************************************************************)
(* The command line (cli.py).  A run of the program is one command; the    *)
(* commands chat, test, create-notebook and upload-pdf create a client and *)
(* call it step by step, each call returning or raising.                   *)
(***************************************************************************)
\* at most this many messages in an interactive chat
MaxTurns == 2

ClientCommands == {"chat", "test", "create-notebook", "upload-pdf"}
PdfUrls == {"url1", "url2"}

\* the options a command is given on the command line
Options(command) ==
    [notebook : IF command \in {"test", "upload-pdf"} THEN Notebooks
                ELSE IF command = "chat" THEN {None, "nb2"} ELSE {None},
     pdf_url : IF command \in {"create-notebook", "upload-pdf"} THEN PdfUrls ELSE {None},
     name : IF command = "create-notebook" THEN {"Papers"} ELSE {None},
     message : IF command = "chat" THEN {None, "hello"} ELSE {None},
     headless : BOOLEAN]

\* a call of the client, as the client sees it
Called(op, args) == [op |-> op, args |-> args]
Log(c, entry) == [c EXCEPT !.calls = Append(@, entry)]

\* the try block is left by an exception: the finally clause runs, and the
\* exception goes on to the command, which exits with code 1
Raise_SkipsFinally(c) == [c EXCEPT !.raised = TRUE, !.pc = "ended", !.exit_code = 1]
Raise(c) == [c EXCEPT !.raised = TRUE, !.pc = "close"]
\* the try block is left at its end: the finally clause runs
Finally(c) == [c EXCEPT !.pc = "close"]

\* the call that follows authenticate() in the command, whatever
\* authenticate() returned: upload-pdf uploading at once
AfterAuthenticate_UploadsAtOnce(c) ==
    CASE c.command = "chat" -> [c EXCEPT !.pc = IF c.message # None THEN "send" ELSE "input"]
      [] c.command = "test" -> [c EXCEPT !.pc = "navigate"]
      [] c.command = "create-notebook" -> [c EXCEPT !.pc = "create"]
      [] c.command = "upload-pdf" -> [c EXCEPT !.pc = "upload"]

\* the call that follows authenticate() in the command, whatever
\* authenticate() returned
AfterAuthenticate(c) ==
    CASE c.command = "chat" -> [c EXCEPT !.pc = IF c.message # None THEN "send" ELSE "input"]
      [] c.command = "test" -> [c EXCEPT !.pc = "navigate"]
      [] c.command = "create-notebook" -> [c EXCEPT !.pc = "create"]
      [] c.command = "upload-pdf" -> [c EXCEPT !.pc = "navigate"]

\* the configuration the command line has loaded
CliInit ==
    /\ driver = NoDriver
    /\ _is_authenticated = FALSE
    /\ config \in [response_stability_checks : {1},
                   default_notebook_id : {None, "nb1"},
                   headless : {FALSE}]
    /\ current_notebook_id = config.default_notebook_id
    /\ closing = "idle"
    /\ call = IdleCall
    /\ trace = NoTrace
    /\ client = None
    /\ task = [t \in Tasks |-> IdleTask]
    /\ argument = NoCall
    /\ returned = NoCall
    /\ cli = NoCommand

\* chat, test, create_notebook, upload_pdf_cmd up to the first await: the
\* options are applied to the configuration and the client is created
Invoke(command, options) ==
    /\ cli = NoCommand
    /\ config' = [config EXCEPT
                    !.default_notebook_id =
                        IF command = "test" \/ (command = "chat" /\ options.notebook # None)
                        THEN options.notebook ELSE @,
                    !.headless = @ \/ options.headless]
    /\ cli' = [command |-> command,
               notebook |-> options.notebook,
               pdf_url |-> options.pdf_url,
               name |-> options.name,
               message |-> options.message,
               pc |-> "start",
               calls |-> <<>>,
               sends |-> <<>>,
               auth_success |-> None,
               typed |-> None,
               turns |-> 0,
               raised |-> FALSE,
               exit_code |-> 0]
    /\ driver' = NoDriver
    /\ _is_authenticated' = FALSE
    /\ current_notebook_id' = config'.default_notebook_id
    /\ UNCHANGED <<closing, call, trace, serverVars, callVars>>

\* await client.start()
CliStart(ok) ==
    /\ cli.command \in ClientCommands
    /\ cli.pc = "start"
    /\ LET c == Log(cli, Called("start", <<>>))
       IN  /\ driver' = IF ok THEN Open ELSE driver
           /\ cli' = IF ok THEN [c EXCEPT !.pc = "authenticate"] ELSE Raise(c)
    /\ UNCHANGED <<_is_authenticated, current_notebook_id, config, closing,
                   call, trace, serverVars, callVars>>

\* CliAuthenticate taking the user's Enter for a successful login
CliAuthenticate_TrustsManualLogin(outcome, entered) ==
    /\ cli.command \in ClientCommands
    /\ cli.pc = "authenticate"
    /\ LET c == [Log(cli, Called("authenticate", <<>>)) EXCEPT
                    !.auth_success = IF outcome = "raise" THEN @ ELSE outcome]
       IN  /\ _is_authenticated' =
                  IF outcome = "raise" THEN _is_authenticated
                  ELSE outcome = "True" \/ (~config.headless /\ entered)
           /\ cli' = IF outcome = "raise" THEN Raise(c)
                     ELSE IF /\ outcome = "False"
                             /\ cli.command # "test"
                             /\ ~config.headless
                             /\ ~entered
                     THEN Raise(c)
                     ELSE AfterAuthenticate(c)
    /\ UNCHANGED <<driver, current_notebook_id, config, closing, call, trace,
                   serverVars, callVars>>

\* auth_success = await client.authenticate(), and for a failed
\* authentication the wait for Enter when the browser is visible (test does
\* not wait); input() may raise EOFError
CliAuthenticate(outcome, entered) ==
    /\ cli.command \in ClientCommands
    /\ cli.pc = "authenticate"
    /\ LET c == [Log(cli, Called("authenticate", <<>>)) EXCEPT
                    !.auth_success = IF outcome = "raise" THEN @ ELSE outcome]
       IN  /\ _is_authenticated' =
                  IF outcome = "raise" THEN _is_authenticated ELSE outcome = "True"
           /\ cli' = IF outcome = "raise" THEN Raise(c)
                     ELSE IF /\ outcome = "False"
                             /\ cli.command # "test"
                             /\ ~config.headless
                             /\ ~entered
                     THEN Raise(c)
                     ELSE AfterAuthenticate(c)
    /\ UNCHANGED <<driver, current_notebook_id, config, closing, call, trace,
                   serverVars, callVars>>

\* interactive chat: the user types a message, or quit, or interrupts
CliInput(typed) ==
    /\ cli.command = "chat"
    /\ cli.pc = "input"
    /\ IF typed \in {"quit", "KeyboardInterrupt"}
       THEN cli' = Finally(cli)
       ELSE /\ cli.turns < MaxTurns
            /\ cli' = [cli EXCEPT !.pc = "send", !.typed = typed, !.turns = @ + 1]
    /\ UNCHANGED <<driver, _is_authenticated, current_notebook_id, config,
                   closing, call, trace, serverVars, callVars>>

\* an exception of a call of the chat: in the interactive loop it is
\* printed and the loop goes on
ChatRaise(c) == IF c.message = None THEN [c EXCEPT !.pc = "input"] ELSE Raise(c)

\* how the browser answers the driver during a send_message: is it at
\* the notebook's URL, does a navigation load, is a chat input clickable,
\* is the RETURN key accepted
Browsers == [at_notebook : BOOLEAN, navigates : BOOLEAN,
             chat_input : BOOLEAN, submits : BOOLEAN]

\* NotebookLMClient._send_message_sync: the WebDriver calls it makes, in
\* order, and the exception it ends with (None when it returns)
_send_message_sync(notebook_id, browser) ==
    LET navigation == IF notebook_id # None /\ ~browser.at_notebook
                      THEN <<"get">> ELSE <<>>
    IN  IF navigation # <<>> /\ ~browser.navigates
        THEN [commands |-> navigation,
              error |-> "NavigationError: Failed to navigate to notebook"]
        ELSE IF ~browser.chat_input
        THEN [commands |-> navigation \o <<"find_element">>,
              error |-> "ChatError: Could not find chat input element"]
        ELSE IF ~browser.submits
        THEN [commands |-> navigation \o <<"find_element", "clear", "send_keys">>,
              error |-> "ChatError: Failed to submit message"]
        ELSE [commands |-> navigation \o <<"find_element", "clear", "send_keys",
                                           "send_keys(RETURN)">>,
              error |-> None]

\* client_send_message that tests the driver only
client_send_message_ChecksDriverOnly(drv, authenticated, notebook_id, browser) ==
    IF drv = NoDriver
    THEN [commands |-> <<>>,
          error |-> "ChatError: Not authenticated or browser not ready"]
    ELSE _send_message_sync(notebook_id, browser)

\* NotebookLMClient.send_message
client_send_message(drv, authenticated, notebook_id, browser) ==
    IF drv = NoDriver \/ ~authenticated
    THEN [commands |-> <<>>,
          error |-> "ChatError: Not authenticated or browser not ready"]
    ELSE _send_message_sync(notebook_id, browser)

\* await client.send_message(message); sends keeps, for each call, the
\* state of the client when it was made and what the call did
CliSend(browser) ==
    /\ cli.command = "chat"
    /\ cli.pc = "send"
    /\ LET message == IF cli.message # None THEN cli.message ELSE cli.typed
           sent == client_send_message(driver, _is_authenticated,
                                       current_notebook_id, browser)
           c == [Log(cli, Called("send_message", <<message>>)) EXCEPT
                    !.sends = Append(@, [driver |-> driver,
                                         authenticated |-> _is_authenticated,
                                         commands |-> sent.commands,
                                         error |-> sent.error])]
       IN  cli' = IF sent.error = None
                  THEN [c EXCEPT !.pc = "response"]
                  ELSE ChatRaise(c)
    /\ UNCHANGED <<driver, _is_authenticated, current_notebook_id, config,
                   closing, call, trace, serverVars, callVars>>

\* response = await client.get_response()
CliGetResponse(ok) ==
    /\ cli.command = "chat"
    /\ cli.pc = "response"
    /\ LET c == Log(cli, Called("get_response", <<>>))
       IN  cli' = IF ~ok THEN ChatRaise(c)
                  ELSE IF c.message = None THEN [c EXCEPT !.pc = "input"]
                  ELSE Finally(c)
    /\ UNCHANGED <<driver, _is_authenticated, current_notebook_id, config,
                   closing, call, trace, serverVars, callVars>>

\* client.upload_pdf(notebook_id=notebook, pdf_url=pdf_url)
upload_pdf_args(c) == <<c.notebook, c.pdf_url>>

\* await client.navigate_to_notebook(notebook) of test and upload-pdf
CliNavigate(ok) ==
    /\ cli.command \in {"test", "upload-pdf"}
    /\ cli.pc = "navigate"
    /\ LET c == Log(cli, Called("navigate_to_notebook", <<cli.notebook>>))
       IN  /\ current_notebook_id' =
                  IF driver # NoDriver /\ ok THEN cli.notebook ELSE current_notebook_id
           /\ cli' = IF driver = NoDriver \/ ~ok THEN Raise(c)
                     ELSE IF c.command = "upload-pdf" THEN [c EXCEPT !.pc = "upload"]
                     ELSE Finally(c)
    /\ UNCHANGED <<driver, _is_authenticated, config, closing, call, trace,
                   serverVars, callVars>>

\* client.create_new_notebook(notebook_name=name, first_pdf_url=pdf_url)
CliCreate(ok) ==
    /\ cli.command = "create-notebook"
    /\ cli.pc = "create"
    /\ LET c == Log(cli, Called("create_new_notebook", <<cli.name, cli.pdf_url>>))
       IN  cli' = IF driver # NoDriver /\ ok THEN Finally(c) ELSE Raise(c)
    /\ UNCHANGED <<driver, _is_authenticated, current_notebook_id, config,
                   closing, call, trace, serverVars, callVars>>

\* client.upload_pdf(notebook_id=notebook, pdf_url=pdf_url)
CliUpload(ok) ==
    /\ cli.command = "upload-pdf"
    /\ cli.pc = "upload"
    /\ LET c == Log(cli, Called("upload_pdf", upload_pdf_args(cli)))
       IN  cli' = IF driver # NoDriver /\ ok THEN Finally(c) ELSE Raise(c)
    /\ UNCHANGED <<driver, _is_authenticated, current_notebook_id, config,
                   closing, call, trace, serverVars, callVars>>

\* finally: await client.close(); driver.quit() may raise; then the command
\* ends, with exit code 1 when an exception has reached it
CliClose(ok) ==
    /\ cli.command \in ClientCommands
    /\ cli.pc = "close"
    /\ LET c == Log(cli, Called("close", <<>>))
           quit == driver # NoDriver
       IN  /\ driver' = IF quit /\ ~ok THEN driver ELSE NoDriver
           /\ _is_authenticated' = IF quit /\ ok THEN FALSE ELSE _is_authenticated
           /\ cli' = [c EXCEPT !.pc = "ended",
                               !.raised = @ \/ (quit /\ ~ok),
                               !.exit_code = IF c.raised \/ (quit /\ ~ok) THEN 1 ELSE 0]
    /\ UNCHANGED <<current_notebook_id, config, closing, call, trace,
                   serverVars, callVars>>

\* the server command: click's defaults for --transport, --host, --port
DefaultTransport == "stdio"
DefaultHost == "127.0.0.1"
DefaultPort == 8000

\* an option that is not given is <<>>, one that is given is <<value>>
OptionOr(option, default) == IF option = <<>> THEN default ELSE option[1]

ServerOptions ==
    [notebook : {None, "nb2"},
     headless : BOOLEAN,
     transport : {<<>>, <<"stdio">>, <<"http">>, <<"sse">>},
     host : {<<>>, <<"0.0.0.0">>},
     port : {<<>>, <<9000>>},
     root_exists : BOOLEAN]

\* server.start(...) called with the default port whatever --port says
start_args_DefaultPort(c) == <<c.transport, c.host, DefaultPort>>
\* server.start(transport=transport, host=host, port=port)
start_args(c) == <<c.transport, c.host, c.port>>

\* server() up to the try block: the root directory is checked, then the
\* options are applied to the loaded configuration
InvokeServer(options) ==
    /\ cli = NoCommand
    /\ LET c == [command |-> "server",
                 options |-> options,
                 transport |-> OptionOr(options.transport, DefaultTransport),
                 host |-> OptionOr(options.host, DefaultHost),
                 port |-> OptionOr(options.port, DefaultPort),
                 pc |-> "construct",
                 calls |-> <<>>,
                 raised |-> FALSE,
                 exit_code |-> 0]
       IN  IF ~options.root_exists
           THEN /\ cli' = [c EXCEPT !.pc = "ended", !.exit_code = 1]
                /\ config' = config
           ELSE /\ cli' = c
                /\ config' = [config EXCEPT
                                !.default_notebook_id =
                                    IF options.notebook # None THEN options.notebook ELSE @,
                                !.headless = @ \/ options.headless]
    /\ UNCHANGED <<driver, _is_authenticated, current_notebook_id, closing,
                   call, trace, serverVars, callVars>>

\* server = NotebookLMFastMCP(config)
ServerConstruct(ok) ==
    /\ cli.command = "server"
    /\ cli.pc = "construct"
    /\ LET c == Log(cli, Called("NotebookLMFastMCP", <<config>>))
       IN  cli' = IF ok THEN [c EXCEPT !.pc = "serve"]
                  ELSE [c EXCEPT !.pc = "ended", !.raised = TRUE, !.exit_code = 1]
    /\ client' = None
    /\ UNCHANGED <<driver, _is_authenticated, current_notebook_id, config,
                   closing, call, trace, task, callVars>>

\* asyncio.run(server.start(...)): it returns, or the user interrupts it,
\* or it raises
ServerStart(outcome) ==
    /\ cli.command = "server"
    /\ cli.pc = "serve"
    /\ LET c == Log(cli, Called("start", start_args(cli)))
       IN  cli' = [c EXCEPT !.pc = "ended",
                            !.raised = outcome = "Exception",
                            !.exit_code = IF outcome = "Exception" THEN 1 ELSE 0]
    /\ UNCHANGED <<driver, _is_authenticated, current_notebook_id, config,
                   closing, call, trace, serverVars, callVars>>

CliNext ==
    \/ \E command \in ClientCommands : \E options \in Options(command) :
           Invoke(command, options)
    \/ \E ok \in BOOLEAN : CliStart(ok)
    \/ \E outcome \in {"True", "False", "raise"}, entered \in BOOLEAN :
           CliAuthenticate(outcome, entered)
    \/ \E typed \in {"quit", "KeyboardInterrupt", "hi"} : CliInput(typed)
    \/ \E browser \in Browsers : CliSend(browser)
    \/ \E ok \in BOOLEAN : CliGetResponse(ok)
    \/ \E ok \in BOOLEAN : CliNavigate(ok)
    \/ \E ok \in BOOLEAN : CliCreate(ok)
    \/ \E ok \in BOOLEAN : CliUpload(ok)
    \/ \E ok \in BOOLEAN : CliClose(ok)
    \/ \E options \in ServerOptions : InvokeServer(options)
    \/ \E ok \in BOOLEAN : ServerConstruct(ok)
    \/ \E outcome \in {"return", "KeyboardInterrupt", "Exception"} : ServerStart(outcome)

CliSpec == CliInit /\ [][CliNext]_vars

(***************************************************************************)
(* What a wait call has seen.                                              *)
(***************************************************************************)
\* the texts polled so far, one per tick
Polled == [i \in 1..Len(trace.ticks) |-> trace.ticks[i].text]
\* the call runs or has run the poll loop
IsWait == call.pc \in {"polling", "checking"} \/ call.outcome \in {"complete", "timeout"}
\* no tick is half done
TickDone == call.pc \in {"polling", "returned"}
\* every indicator check made so far said "not streaming"
IndicatorAlwaysFalse == \A i \in 1..Len(trace.ticks) : trace.ticks[i].streaming # "True"
\* the loop returns at this tick as COMPLETE with this text
CompletesAt(tick, text) ==
    /\ call.outcome = "complete"
    /\ Len(trace.ticks) = tick
    /\ call.result = text
PolledTexts == {TextA, TextB, NoResponseContentFound, <<>>}

(***************************************************************************)
(* Claims about the Streaming Stability Monitor.                           *)
(***************************************************************************)

\* C1 as stated: with required stable count 3 and the indicator check always
\* false, the polled texts [A, A, A] complete at tick 3 returning A and the
\* polled texts [A, A, B, B, B] complete at tick 5 returning B.
C1_CompletesAtNthEqualPoll ==
    (IsWait /\ TickDone /\ call.required_stable_count = 3 /\ IndicatorAlwaysFalse) =>
        \A A, B \in PolledTexts :
            /\ (Polled = <<A, A, A>> /\ call.max_wait >= 3) => CompletesAt(3, A)
            /\ (A # B /\ Polled = <<A, A, B, B, B>> /\ call.max_wait >= 5)
                   => CompletesAt(5, B)

\* C1 amended: with required stable count 3 and the indicator check always
\* false, the polled texts [A, A, A, A] (A not empty) complete exactly at
\* tick 4 returning A, and [A, A, B, B, B, B] (A # B) complete exactly at
\* tick 6 returning B: the first poll of a new text only resets the count,
\* completion happens at the third poll that repeats it.
C1_CompletesAtNthRepeat ==
    (IsWait /\ TickDone /\ call.required_stable_count = 3 /\ IndicatorAlwaysFalse) =>
        \A A, B \in PolledTexts :
            /\ (A # <<>> /\ Polled = <<A, A, A, A>>) => CompletesAt(4, A)
            /\ (A # <<>> /\ Polled \in {<<A>>, <<A, A>>, <<A, A, A>>})
                   => call.outcome # "complete"
            /\ (A # B /\ Polled = <<A, A, B, B, B, B>>) => CompletesAt(6, B)
            /\ (A # B /\ Polled \in {<<A, A, B>>, <<A, A, B, B>>, <<A, A, B, B, B>>})
                   => call.outcome # "complete"

C1_Witness ==
    /\ call.required_stable_count = 3
    /\ IndicatorAlwaysFalse
    /\ Polled = <<TextA, TextA, TextB, TextB, TextB, TextB>>
    /\ CompletesAt(6, TextB)

\* C2: the loop returns as COMPLETE only at a tick whose polled text equals
\* lastText, with stableCount >= requiredStableCount and with the indicator
\* check of that same tick false; so when the indicator is busy on ticks
\* 1-3 it does not complete before tick 4.
C2_CompleteNeedsStableAndIdle ==
    call.outcome = "complete" =>
        LET n == Len(trace.ticks)
        IN  /\ n >= 1
            /\ trace.ticks[n].text = call.last_response
            /\ call.result = call.last_response
            /\ call.stable_count >= call.required_stable_count
            /\ trace.ticks[n].streaming = "False"
            /\ (\A i \in 1..n : i <= 3 => trace.ticks[i].streaming # "False") => n >= 4

C2_Witness ==
    /\ call.required_stable_count = 3
    /\ Polled = <<TextA, TextA, TextA, TextA>>
    /\ trace.ticks[2].streaming = "True"
    /\ trace.ticks[3].streaming = "True"
    /\ CompletesAt(4, TextA)

\* C3: the TIMEOUT outcome is taken only once elapsed time has reached
\* max_wait, no tick starts after that, and it returns lastText if lastText
\* is not empty and the sentinel "Response timeout - no content retrieved"
\* otherwise.
C3_TimeoutReturnsLastText ==
    /\ call.pc \in {"polling", "checking"} => call.elapsed <= call.max_wait
    /\ call.pc = "checking" => call.elapsed < call.max_wait
    /\ call.outcome = "timeout" =>
           /\ call.elapsed >= call.max_wait
           /\ call.last_response # <<>> => call.result = call.last_response
           /\ call.last_response = <<>> => call.result = ResponseTimeout

C3_Witness ==
    /\ call.outcome = "timeout"
    /\ call.max_wait = 3
    /\ Polled = <<TextA, TextB, TextA>>
    /\ call.result = TextA

\* C4 as stated: if no poll of the wait window finds a candidate text, the
\* result is "No response content found", for every max_wait.
C4_NoCandidateGivesExtractorSentinel ==
    (/\ call.outcome \in {"complete", "timeout"}
     /\ \A i \in 1..Len(trace.ticks) : trace.ticks[i].text = NoResponseContentFound)
        => call.result = NoResponseContentFound

\* C4 amended: if the wait window holds at least one poll (max_wait >= 1) and
\* every poll in it finds no candidate text, the result is "No response
\* content found" and not the timeout sentinel, for every required count.
C4_NoCandidateInSomePollGivesExtractorSentinel ==
    (/\ call.outcome \in {"complete", "timeout"}
     /\ call.max_wait >= 1
     /\ \A i \in 1..Len(trace.ticks) : trace.ticks[i].text = NoResponseContentFound)
        => /\ Len(trace.ticks) >= 1
           /\ call.result = NoResponseContentFound

C4_Witness ==
    /\ call.outcome = "timeout"
    /\ call.max_wait = 2
    /\ Polled = <<NoResponseContentFound, NoResponseContentFound>>
    /\ call.result = NoResponseContentFound

\* C5: every call of the poll loop terminates, after at most max_wait
\* one-second ticks, and returns a string as COMPLETE or TIMEOUT (it never
\* raises), whatever the page shows: changing text, a busy indicator, or
\* queries that throw.
C5_WaitTerminatesWithString ==
    /\ [](IsWait =>
            /\ Len(trace.ticks) <= call.max_wait
            /\ call.pc = "returned" =>
                   /\ call.outcome \in {"complete", "timeout"}
                   /\ \A i \in 1..Len(call.result) : call.result[i] \in STRING)
    /\ (call.pc \in {"polling", "checking"}) ~> (call.pc = "returned")

\* a call that met throwing queries and a busy indicator on every tick and
\* ran into the deadline
C5_Witness ==
    /\ call.outcome = "timeout"
    /\ call.max_wait = MaxWait
    /\ Len(trace.ticks) = MaxWait
    /\ \A i \in 2..Len(trace.ticks) :
           /\ trace.ticks[i].text = NoResponseContentFound
           /\ trace.ticks[i].streaming = "True"

\* C6 as stated: a polled text that is empty from the first tick on needs as
\* many polls before it is returned as a non-empty text that is constant
\* from the first tick on.
C6_EmptyTextNeedsAsManyPolls ==
    \A t \in PolledTexts :
        (/\ call.outcome = "complete"
         /\ IndicatorAlwaysFalse
         /\ \A i \in 1..Len(trace.ticks) : trace.ticks[i].text = t)
            => Len(trace.ticks) = call.required_stable_count + 1

\* C7 as stated: when the driver is None at the start of a get_response
\* call or becomes None during it, the caller gets an error and no normal
\* string result.
C7_DriverLossIsAnError ==
    (call.pc = "returned" /\ trace.driver_absent) => call.outcome = "ChatError"

(***************************************************************************)
(* Claims about the server's use of the client.                            *)
(***************************************************************************)
\* the task has a navigation, a message delivery or a poll loop running
\* against the browser driver
InFlight(t) == task[t].pc \in {"navigating", "sending", "waiting"}

\* C8 as stated: at most one extraction, poll loop or navigation call is in
\* flight against the client's browser driver at any time, also when two
\* tool requests are handled concurrently.
C8_DriverOperationsSerialized ==
    \A t1, t2 \in Tasks : (InFlight(t1) /\ InFlight(t2)) => t1 = t2

\* C9 as stated: after _ensure_client has returned without raising, the
\* client is authenticated, and the send_message the tool issues next is not
\* rejected with ChatError for lack of authentication (stated here for the
\* tools that send, once the browser has come up).
C9_EnsuredClientIsAuthenticated ==
    \A t \in Tasks :
        (/\ task[t].tool \in {"send_chat_message", "chat_with_notebook"}
         /\ task[t].ensured
         /\ driver # NoDriver)
            => /\ _is_authenticated
               /\ task[t].outcome # "ChatError: Not authenticated or browser not ready"

\* C10 as stated: get_chat_response with GetResponseRequest.timeout = T runs
\* its poll loop with max_wait = T, so that it polls at most T times.
C10_PollLoopRunsWithRequestTimeout ==
    \A t \in Tasks :
        task[t].tool = "get_chat_response" =>
            /\ task[t].pc = "waiting" => task[t].max_wait = task[t].timeout
            /\ task[t].outcome = "success" => task[t].polls <= task[t].timeout

\* C11: get_quick_response returns the current text from one extraction
\* without waiting: a get_quick_response request never enters the stability
\* poll loop and never polls.
C11_QuickResponseNeverPolls ==
    \A t \in Tasks :
        task[t].tool = "get_quick_response"
            => /\ task[t].pc # "waiting"
               /\ task[t].polls = 0

(***************************************************************************)
(* Claims about the Text Extractor.                                        *)
(***************************************************************************)
Extracted == returned.fn = "_get_current_response"

\* the selectors whose query matched an element with visible text
Matching(page, k) ==
    /\ ~page.content[k].throws
    /\ \E i \in 1..Len(page.content[k].elems) : Strip(page.content[k].elems[i]) # <<>>

\* the visible texts of all the elements a selector matched
AllTexts(page, k) ==
    {Strip(page.content[k].elems[i]) : i \in 1..Len(page.content[k].elems)} \ {<<>>}

\* the selectors whose last matched element has visible text, and that text
HasLastText(page, k) ==
    /\ ~page.content[k].throws
    /\ page.content[k].elems # <<>>
    /\ Strip(page.content[k].elems[Len(page.content[k].elems)]) # <<>>
LastText(page, k) == Strip(page.content[k].elems[Len(page.content[k].elems)])

Selectors == 1..Len(response_selectors)

Cleaned == returned.fn = "_clean_response_text"
CleanedTwice == Cleaned /\ returned.twice # <<>>

\* the characters of the texts
Characters ==
    {UpperCase[i] : i \in 1..Len(UpperCase)} \cup {LowerCase[i] : i \in 1..Len(LowerCase)}
        \cup Whitespace \cup {"?", ".", "_", "-", "'"}

\* a Python str: a finite sequence of characters
IsString(v) == \A i \in DOMAIN v : v[i] \in Characters

\* C13: the cleaner is total: for every input string, the empty string,
\* whitespace-only strings, single-line strings and strings made only of
\* UI-artifact tokens included, _clean_response_text returns a string and
\* does not raise.
C13_CleanerIsTotal ==
    Cleaned =>
        /\ IsString(argument.text)
        /\ IsString(returned.value)
        /\ \A i \in 1..Len(returned.twice) : IsString(returned.twice[i])

\* a text made only of UI-artifact tokens has been cleaned, to nothing
C13_Witness ==
    /\ Cleaned
    /\ argument.text = ui_artifacts[1] \o NewLine \o ui_artifacts[2]
    /\ returned.value = <<>>

\* the last line of the text is a UI-artifact token and nothing else
EndsWithArtifactLine(text) ==
    LET lines == Split(text, NewLine)
    IN  \E k \in 1..Len(ui_artifacts) : Lower(Strip(lines[Len(lines)])) = ui_artifacts[k]

\* C14 as stated: cleaning is idempotent on inputs whose trailing lines
\* consist only of UI-artifact tokens, whatever the lines before them:
\* _clean_response_text(_clean_response_text(x)) = _clean_response_text(x).
C14_CleaningIsIdempotent ==
    (CleanedTwice /\ EndsWithArtifactLine(argument.text)) =>
        returned.twice[1] = returned.value

\* C15 as stated: when the first line is question-like (under 50
\* characters, ends with "?", no answer-opening marker) and the second line
\* contains an answer-opening marker, the cleaned text starts with the
\* second line, whether or not the rest reaches 50 characters.
C15_EchoedQuestionIsRemoved ==
    Cleaned =>
        LET lines == Split(argument.text, NewLine)
        IN  (/\ Len(lines) >= 2
             /\ Len(lines[1]) < ShortTextLimit
             /\ EndsWith(lines[1], QuestionMark)
             /\ ~\E k \in 1..Len(ai_response_indicators) :
                    Contains(lines[1], ai_response_indicators[k])
             /\ \E k \in 1..Len(ai_response_indicators) :
                    Contains(lines[2], ai_response_indicators[k]))
            => \E n \in 0..Len(returned.value) :
                   SubSeq(returned.value, 1, n) = Strip(lines[2])

(***************************************************************************)
(* Claims about the command line.                                          *)
(***************************************************************************)
\* the operations the client was called with, in order
Ops == [i \in 1..Len(cli.calls) |-> cli.calls[i].op]
ClientCommandEnded == cli.command \in ClientCommands /\ cli.pc = "ended"

\* C16: every command that creates a client (chat, create-notebook,
\* upload-pdf, test) calls close() on it on every path before the command
\* ends, after normal completion, after a failed authentication and after
\* an exception of a call; close() is the last call, made once.
C16_ClientIsClosedOnEveryPath ==
    ClientCommandEnded =>
        /\ Ops # <<>>
        /\ Ops[Len(Ops)] = "close"
        /\ \A i \in 1..(Len(Ops) - 1) : Ops[i] # "close"

\* upload-pdf has ended with exit code 1 after client.upload_pdf raised,
\* and the client was closed
C16_Witness ==
    /\ ClientCommandEnded
    /\ cli.command = "upload-pdf"
    /\ cli.raised
    /\ cli.exit_code = 1
    /\ Ops = <<"start", "authenticate", "navigate_to_notebook", "upload_pdf", "close">>

\* the calls of upload-pdf in the order of the claim, close excepted, with
\* the notebook id and the URL of the command line
UploadCalls ==
    <<Called("start", <<>>),
      Called("authenticate", <<>>),
      Called("navigate_to_notebook", <<cli.notebook>>),
      Called("upload_pdf", <<cli.notebook, cli.pdf_url>>)>>

\* C17: upload-pdf calls the client in the order start, authenticate,
\* navigate_to_notebook(notebook), upload_pdf(notebook, pdf_url), close;
\* upload_pdf is not called before navigate_to_notebook has returned for the
\* same notebook id, and both get the id and the URL of the command line.
C17_UploadCallsInOrder ==
    cli.command = "upload-pdf" =>
        /\ \E n \in 0..Len(UploadCalls) :
               \/ cli.calls = SubSeq(UploadCalls, 1, n)
               \/ cli.calls = SubSeq(UploadCalls, 1, n) \o <<Called("close", <<>>)>>
        /\ (\E i \in 1..Len(cli.calls) : cli.calls[i].op = "upload_pdf")
               => current_notebook_id = cli.notebook
        /\ (cli.pc = "ended" /\ ~cli.raised)
               => cli.calls = UploadCalls \o <<Called("close", <<>>)>>

\* upload-pdf has run to its end without an exception, for a notebook that
\* is not the configured one
C17_Witness ==
    /\ cli.command = "upload-pdf"
    /\ cli.pc = "ended"
    /\ cli.exit_code = 0
    /\ cli.notebook = "nb2"
    /\ config.default_notebook_id = "nb1"
    /\ cli.calls = UploadCalls \o <<Called("close", <<>>)>>

\* the start calls the server command has made
StartCalls == {i \in 1..Len(cli.calls) : cli.calls[i].op = "start"}

\* C19: the server command builds the server from the loaded configuration
\* with --notebook and --headless applied to it and calls start once with
\* the transport, host and port given (defaults stdio, 127.0.0.1, 8000); it
\* exits with code 0 when start returns; when the root directory does not
\* exist it exits with code 1 and neither builds nor starts a server.
C19_ServerCommandStartsOnce ==
    cli.command = "server" =>
        /\ ~cli.options.root_exists =>
               cli.pc = "ended" /\ cli.exit_code = 1 /\ cli.calls = <<>>
        /\ \A i \in 1..Len(cli.calls) :
               /\ cli.calls[i].op = "NotebookLMFastMCP" =>
                      /\ i = 1
                      /\ cli.calls[i].args = <<config>>
                      /\ cli.options.notebook # None =>
                             config.default_notebook_id = cli.options.notebook
                      /\ cli.options.headless => config.headless
               /\ cli.calls[i].op = "start" =>
                      /\ i = 2
                      /\ cli.calls[i].args =
                             <<IF cli.options.transport = <<>> THEN "stdio"
                               ELSE cli.options.transport[1],
                               IF cli.options.host = <<>> THEN "127.0.0.1"
                               ELSE cli.options.host[1],
                               IF cli.options.port = <<>> THEN 8000
                               ELSE cli.options.port[1]>>
        /\ (cli.pc = "ended" /\ cli.options.root_exists /\ ~cli.raised) =>
               cli.exit_code = 0 /\ Cardinality(StartCalls) = 1
        /\ Cardinality(StartCalls) <= 1

\* the server command was given --transport http --port 9000 and no
\* --host, start has returned and the command has exited with code 0
C19_Witness ==
    /\ cli.command = "server"
    /\ cli.pc = "ended"
    /\ cli.exit_code = 0
    /\ cli.options.notebook = "nb2"
    /\ cli.options.port = <<9000>>
    /\ Len(cli.calls) = 2
    /\ cli.calls[2] = Called("start", <<"http", "127.0.0.1", 9000>>)

(***************************************************************************)
(* Claims about extract_notebook_id.                                       *)
(***************************************************************************)
IdExtracted == returned.fn = "extract_notebook_id"

\* a run of 36 characters of [a-f0-9-] starts at position i of the text
RunAt(url, i) ==
    /\ i + 35 <= Len(url)
    /\ \A j \in i..(i + 35) :
           url[j] \in {"a","b","c","d","e","f","-",
                       "0","1","2","3","4","5","6","7","8","9"}

\* C18: extract_notebook_id returns the 36-character id ([a-f0-9-]) that a
\* NotebookLM notebook URL contains or that is given bare; it raises
\* ValueError with a message containing "Invalid NotebookLM URL" for every
\* input without such a run of 36 characters; what it returns is a
\* substring of its input.
C18_ExtractsIdOrRaises ==
    IdExtracted =>
        LET url == argument.url
            result == returned.result
        IN  /\ (\A i \in 1..Len(url) : ~RunAt(url, i)) <=> result.raised = "ValueError"
            /\ result.raised = "ValueError" =>
                   Contains(result.value,
                            <<"I","n","v","a","l","i","d"," ","N","o","t","e","b",
                              "o","o","k","L","M"," ","U","R","L">>)
            /\ result.raised = "None" =>
                   /\ \E i \in 1..Len(url) :
                          RunAt(url, i) /\ result.value = SubSeq(url, i, i + 35)
                   \* given bare
                   /\ (Len(url) = 36 /\ RunAt(url, 1)) => result.value = url
                   \* in a notebook URL: an id that follows /notebook/
                   /\ (\E i \in 1..Len(url) : MatchAt(patterns[2], url, i)) =>
                          \E i \in 1..Len(url) :
                              /\ MatchAt(patterns[2], url, i)
                              /\ result.value =
                                     SubSeq(url, i + Len(patterns[2]),
                                            i + Len(patterns[2]) + 35)

\* a bare id, then a notebook URL with another id: the id of the URL is
\* returned
C18_Witness ==
    /\ IdExtracted
    /\ argument.url = OtherId \o <<" ">> \o patterns[1] \o NotebookId
    /\ returned.result = [raised |-> "None", value |-> NotebookId]

(***************************************************************************)
(* Claims about the state of the Streaming Stability Monitor.              *)
(***************************************************************************)
\* C20: StabilityState discipline: stableCount >= 0 in every state of the
\* poll loop; a tick whose polled text differs from lastText sets
\* stableCount to 0 and lastText to the polled text; a tick whose text
\* equals lastText adds exactly 1 to stableCount and leaves lastText; every
\* call starts from lastText = "" and stableCount = 0 whatever an earlier
\* call left.
C20_StabilityStateDiscipline ==
    [][/\ call'.stable_count >= 0
       /\ (call.pc = "polling" /\ Len(trace'.ticks) = Len(trace.ticks) + 1) =>
              LET polled == trace'.ticks[Len(trace'.ticks)].text
              IN  IF polled # call.last_response
                  THEN call'.stable_count = 0 /\ call'.last_response = polled
                  ELSE /\ call'.stable_count = call.stable_count + 1
                       /\ call'.last_response = call.last_response
       /\ (call.pc = "idle" /\ call'.pc = "polling") =>
              call'.last_response = <<>> /\ call'.stable_count = 0
       /\ (call.pc = "checking" /\ call'.pc = "polling") =>
              /\ call'.stable_count = call.stable_count
              /\ call'.last_response = call.last_response]_vars

\* a text was stable for two ticks, then another text has come and the
\* count is back at 0
C20_Witness ==
    /\ call.pc = "polling"
    /\ Len(trace.ticks) = 4
    /\ Polled = <<TextA, TextA, TextA, TextB>>
    /\ call.stable_count = 0
    /\ call.last_response = TextB

(***************************************************************************)
(* Claims about failures of the page queries.                              *)
(***************************************************************************)
\* C21: the indicator check is fail-open: when querying or inspecting an
\* indicator element throws, _check_streaming_indicators returns False, so
\* that a tick with stable text and stable_count >= the required count
\* completes with that text instead of waiting for the deadline.
C21_IndicatorFailureIsFailOpen ==
    /\ \A page \in Pages :
           IndicatorCheckRaises(Open, page) =>
               _check_streaming_indicators(Open, page) = FALSE
    /\ LET n == Len(trace.ticks)
       IN  trace.check_raised =>
               /\ n > 0
               /\ trace.ticks[n].streaming = "False"
               /\ call.stable_count >= call.required_stable_count
                      => /\ call.pc = "returned"
                         /\ call.outcome = "complete"
                         /\ call.result = Polled[n]

\* a call completes on a tick whose indicator check threw, before its
\* deadline
C21_Witness ==
    /\ call.outcome = "complete"
    /\ Len(trace.ticks) >= 2
    /\ trace.check_raised
    /\ call.result = TextA
    /\ call.elapsed < call.max_wait - 1


\* the page with every query that throws replaced by a query that finds
\* no element
Recovered(page) ==
    [page EXCEPT !.content = [k \in 1..Len(response_selectors) |->
                                 IF page.content[k].throws THEN Found(<<>>)
                                 ELSE page.content[k]],
                 !.generic = IF page.generic.throws THEN Found(<<>>)
                             ELSE page.generic]

\* on every page the extractor returns what it returns when the queries
\* that throw find no element instead
ThrowingQueriesFindNothing ==
    \A page \in Pages :
        _get_current_response(Open, page)
            = _get_current_response(Open, Recovered(page))

\* C22: extraction failure is recovered locally: a selector query that
\* throws contributes no candidate and the other selectors are still
\* evaluated, a fallback scan that throws yields no candidate, and the poll
\* loop goes on to its next tick instead of ending with an exception.
C22_ExtractionFailureIsRecovered ==
    /\ ThrowingQueriesFindNothing
    /\ (IsWait /\ trace.query_raised) =>
           /\ call.outcome \in {"none", "complete", "timeout"}
           /\ \A i \in 1..Len(trace.ticks) : Polled[i] \in PolledTexts
           /\ WithinDeadline(call) =>
                  call.pc \in {"polling", "checking"} \/ call.outcome = "complete"

\* every query threw in the first tick (no later tick had a query that
\* threw: the page that shows TextA has none), the sentinel was polled, and
\* the loop went on to a second tick that polled TextA
C22_Witness ==
    /\ trace.query_raised
    /\ ~trace.driver_absent
    /\ Polled = <<NoResponseContentFound, TextA>>
    /\ call.pc = "polling"


\* the page with, for each selector, only the last element it matched
LastMatchOnly(page) ==
    [page EXCEPT !.content = [k \in Selectors |->
        IF page.content[k].throws \/ page.content[k].elems = <<>>
        THEN page.content[k]
        ELSE Found(<<page.content[k].elems[Len(page.content[k].elems)]>>)]]

Qualifies(text) ==
    /\ Len(text) > 50
    /\ \A k \in 1..Len(fallback_skip) : ~Contains(Lower(text), fallback_skip[k])

\* the elements the fallback scan may select: those among the last 20
\* whose text qualifies
Qualifying(page) ==
    IF page.generic.throws THEN {}
    ELSE {i \in 1..Len(page.generic.elems) :
             /\ i > Len(page.generic.elems) - 20
             /\ Qualifies(Strip(page.generic.elems[i]))}

\* C24: the fallback scan runs only when no selector yields a non-empty
\* candidate (the text of its last match); it looks at the last 20 generic
\* text elements only, in reverse document order, and selects the first
\* whose stripped text is longer than 50 characters and holds none of the
\* denylisted fragments, case-insensitively; when nothing is selected the
\* result is "No response content found".
C24_FallbackScan ==
    Extracted =>
        LET page == argument.page
            selected == \E k \in Selectors : HasLastText(page, k)
        IN  /\ selected =>
                   \E k \in Selectors :
                       HasLastText(page, k) /\ returned.raw = LastText(page, k)
            /\ (~selected /\ Qualifying(page) # {}) =>
                   \E i \in Qualifying(page) :
                       /\ \A j \in Qualifying(page) : j <= i
                       /\ returned.raw = Strip(page.generic.elems[i])
            /\ (~selected /\ Qualifying(page) = {}) =>
                   /\ returned.raw = <<>>
                   /\ returned.value = NoResponseContentFound

\* no selector has a candidate; of 23 generic elements the first is long
\* but not among the last 20, the last asks to Sign In, the one before it
\* is selected
C24_Witness ==
    /\ Extracted
    /\ argument.page.content = NothingFound
    /\ ~argument.page.generic.throws
    /\ Len(argument.page.generic.elems) = 23
    /\ argument.page.generic.elems[1] = Other
    /\ argument.page.generic.elems[22] = Prose
    /\ argument.page.generic.elems[23] = Denied
    /\ returned.raw = Strip(Prose)


(***************************************************************************)
(* Claims about the effects on the session.                                *)
(***************************************************************************)
\* the WebDriver methods that only read the page
ReadingCommands == {"find_elements", "text", "is_displayed"}

\* C25: the core is read-only towards the session: a step of
\* _get_current_response, _check_streaming_indicators or
\* _wait_for_streaming_response leaves the driver handle,
\* current_notebook_id and _is_authenticated as they are and sends the
\* browser no navigation, click or key-press, on every path.
C25_CoreIsReadOnly ==
    [][(call.pc \in {"extracting", "polling", "checking"} /\ call' # call) =>
           /\ driver' = driver
           /\ current_notebook_id' = current_notebook_id
           /\ _is_authenticated' = _is_authenticated
           /\ trace'.commands \subseteq ReadingCommands]_vars

\* a call has completed after an extraction and an indicator check that
\* both threw
C25_Witness ==
    /\ call.outcome = "complete"
    /\ trace.query_raised
    /\ trace.check_raised
    /\ driver = Open
    /\ trace.commands = {"find_elements"}


(***************************************************************************)
(* More claims about the Response Cleaner.                                 *)
(***************************************************************************)
\* C26: for every input string the result of _clean_response_text is at
\* most as long as the input, also when the result is cleaned again.
C26_CleaningNeverLengthens ==
    /\ Cleaned => Len(returned.value) <= Len(argument.text)
    /\ CleanedTwice => Len(returned.twice[1]) <= Len(returned.value)

\* a question, a long answer and a caption: the answer alone is returned
C26_Witness ==
    /\ Cleaned
    /\ argument.text = Join(<<Question, LongAnswer, ui_artifacts[1]>>, NewLine)
    /\ returned.value = Strip(LongAnswer)
    /\ Len(returned.value) < Len(argument.text)


(***************************************************************************)
(* More claims about the server.                                           *)
(***************************************************************************)
\* C27: the poll loop runs off the event-loop thread: while a get_response
\* call is polling, the event loop is free, and the handler of any other
\* tool request can start.
C27_EventLoopFreeWhilePolling ==
    \A t1 \in Tasks, t2 \in Tasks :
        (task[t1].pc = "waiting" /\ task[t2].pc = "idle") =>
            \A tool \in Tools : \A request \in Requests(tool) :
                ENABLED Request(t2, tool, request)

\* two poll loops are running: the handler of the second request has run
\* up to its own dispatch while the loop of the first was polling
C27_Witness ==
    /\ task[1].tool = "get_chat_response"
    /\ task[1].pc = "waiting"
    /\ task[2].tool = "get_quick_response"
    /\ task[2].pc = "waiting"


\* C28 as stated: whenever _ensure_client has returned without raising, the
\* server's client is there and its browser driver has been started, also
\* when a second tool call enters _ensure_client while the first awaits
\* start(), and after a start() that failed.
C28_EnsuredClientHasDriver ==
    \A t \in Tasks :
        task[t].ensured => client # None /\ driver # NoDriver


(***************************************************************************)
(* Claims about the delivery of messages.                                  *)
(***************************************************************************)
\* the send_message calls of the command that runs
Sends == IF cli.command \in ClientCommands THEN cli.sends ELSE <<>>
\* the WebDriver calls that type into the page
Typing == {"clear", "send_keys", "send_keys(RETURN)"}
Typed(send) == \E i \in 1..Len(send.commands) : send.commands[i] \in Typing

\* whatever the client's state and the browser's answers: a client without
\* driver or authentication does nothing and raises ChatError
UnreadyClientSendsNothing ==
    \A drv \in {NoDriver, Open}, authenticated \in BOOLEAN,
       notebook_id \in Notebooks \cup {None}, browser \in Browsers :
        (drv = NoDriver \/ ~authenticated) =>
            client_send_message(drv, authenticated, notebook_id, browser)
                = [commands |-> <<>>,
                   error |-> "ChatError: Not authenticated or browser not ready"]

\* C29: send_message delivers nothing to the browser unless the driver is
\* started and _is_authenticated is True: otherwise it raises ChatError
\* before any navigation, element lookup or key-press; and when no chat
\* input element is found it raises ChatError without typing anything.
C29_SendMessageIsGuarded ==
    /\ UnreadyClientSendsNothing
    /\ \A i \in 1..Len(Sends) :
        /\ (Sends[i].driver = NoDriver \/ ~Sends[i].authenticated) =>
               /\ Sends[i].commands = <<>>
               /\ Sends[i].error = "ChatError: Not authenticated or browser not ready"
        /\ Sends[i].error = "ChatError: Could not find chat input element" =>
               ~Typed(Sends[i])
        /\ Typed(Sends[i]) =>
               /\ Sends[i].driver # NoDriver /\ Sends[i].authenticated
               /\ \E j \in 1..Len(Sends[i].commands) :
                      /\ Sends[i].commands[j] = "find_element"
                      /\ \A k \in 1..j : Sends[i].commands[k] \notin Typing

\* an authenticated client is asked to send, the page is loaded again and
\* no chat input is found: ChatError, nothing typed
C29_Witness ==
    /\ Len(Sends) = 1
    /\ Sends[1].authenticated
    /\ Sends[1].commands = <<"get", "find_element">>
    /\ Sends[1].error = "ChatError: Could not find chat input element"


\* C30: in the chat command, once the initial authenticate() has returned
\* False, no message is ever delivered in that session: authenticate is not
\* called again (also not after the user has pressed Enter),
\* _is_authenticated stays False, and every send_message raises ChatError.
C30_FailedLoginNeverRecovers ==
    (cli.command = "chat" /\ cli.auth_success = "False") =>
        /\ Cardinality({i \in 1..Len(Ops) : Ops[i] = "authenticate"}) = 1
        /\ ~_is_authenticated
        /\ \A i \in 1..Len(Sends) :
               /\ ~Typed(Sends[i])
               /\ Sends[i].commands = <<>>
               /\ Sends[i].error = "ChatError: Not authenticated or browser not ready"

\* an interactive chat with a visible browser: authenticate() returned
\* False, the user pressed Enter, and two messages were refused
C30_Witness ==
    /\ cli.command = "chat"
    /\ cli.auth_success = "False"
    /\ ~config.headless
    /\ cli.message = None
    /\ Len(Sends) = 2
    /\ cli.pc = "input"
    /\ driver = Open


(***************************************************************************)
(* Claims about the texts the poll loop is given.                          *)
(***************************************************************************)
\* C37 as stated: while the driver is present _get_current_response never
\* returns the empty string, hence _wait_for_streaming_response returns
\* "Response timeout - no content retrieved" only if no poll returned a
\* non-empty text, i.e. max_wait <= 0 or the driver was None at every poll.
C37_TimeoutSentinelOnlyWithoutText ==
    /\ \A page \in Pages : _get_current_response(Open, page) # <<>>
    /\ (call.outcome = "timeout" /\ call.result = ResponseTimeout) =>
           \A i \in 1..Len(Polled) : Polled[i] = <<>>


(***************************************************************************)
(* A NotebookLMClient used directly: start, authenticate, send_message,    *)
(* get_response, navigate_to_notebook and close, one call at a time (the   *)
(* caller serializes the operations of a session).  argument holds the     *)
(* last call with the state of the client it was made in, returned what    *)
(* the call did.                                                           *)
(***************************************************************************)
\* the characters of a notebook id
IdText(notebook_id) ==
    IF notebook_id = "nb1" THEN <<"n","b","1">> ELSE <<"n","b","2">>

\* expected_url = f"notebook/{self.current_notebook_id}"
expected_url(notebook_id) ==
    <<"n","o","t","e","b","o","o","k","/">> \o IdText(notebook_id)

\* config.base_url, and f"{self.config.base_url}/notebook/{notebook_id}"
BaseUrl == <<"n","l","m",".","g","o","o","g","l","e",".","c","o","m">>
NotebookUrl(notebook_id) == BaseUrl \o <<"/">> \o expected_url(notebook_id)

SignInWord == <<"s","i","g","n","i","n">>
AccountsHost ==
    <<"a","c","c","o","u","n","t","s",".","g","o","o","g","l","e",".","c","o","m">>

\* what driver.current_url may be: the start page, a notebook, the
\* sign-in page of the application, Google's account chooser, Google's
\* sign-in page, and a page whose path spells SignIn with capitals
SessionUrls ==
    {BaseUrl, NotebookUrl("nb1"), NotebookUrl("nb2"),
     BaseUrl \o <<"/">> \o SignInWord,
     AccountsHost \o <<"/","v","3">>,
     AccountsHost \o <<"/">> \o SignInWord,
     BaseUrl \o <<"/","S","i","g","n","I","n">>}

\* how the browser answers a navigation: does the body appear before the
\* wait times out, and the URL it is at afterwards
Loads == [loads : BOOLEAN, current_url : SessionUrls]

\* Python's str() of a bool
PyBool(b) == IF b THEN "True" ELSE "False"

\* authenticate that marks the session authenticated as soon as the page
\* is requested
client_authenticate_MarksBeforeWait(drv, authenticated, page) ==
    IF drv = NoDriver
    THEN [error |-> "AuthenticationError: Browser not started", value |-> None,
          commands |-> <<>>, _is_authenticated |-> authenticated]
    ELSE IF ~page.loads
    THEN [error |-> "AuthenticationError: Page load timed out during authentication",
          value |-> None, commands |-> <<"get", "find_element">>,
          _is_authenticated |-> TRUE]
    ELSE LET signed_in == /\ ~Contains(page.current_url, SignInWord)
                          /\ ~Contains(page.current_url, AccountsHost)
         IN  [error |-> None, value |-> PyBool(signed_in),
              commands |-> <<"get", "find_element", "current_url">>,
              _is_authenticated |-> signed_in]

\* NotebookLMClient.authenticate with _authenticate_sync: the exception it
\* ends with (None when it returns), the value returned, the WebDriver
\* calls made and _is_authenticated afterwards
client_authenticate(drv, authenticated, page) ==
    IF drv = NoDriver
    THEN [error |-> "AuthenticationError: Browser not started", value |-> None,
          commands |-> <<>>, _is_authenticated |-> authenticated]
    ELSE IF ~page.loads
    THEN [error |-> "AuthenticationError: Page load timed out during authentication",
          value |-> None, commands |-> <<"get", "find_element">>,
          _is_authenticated |-> authenticated]
    ELSE LET signed_in == /\ ~Contains(page.current_url, SignInWord)
                          /\ ~Contains(page.current_url, AccountsHost)
         IN  [error |-> None, value |-> PyBool(signed_in),
              commands |-> <<"get", "find_element", "current_url">>,
              _is_authenticated |-> signed_in]

\* navigate_to_notebook that records the notebook before the page loads
client_navigate_to_notebook_RecordsFirst(drv, current, notebook_id, page) ==
    IF drv = NoDriver
    THEN [error |-> "NavigationError: Browser not started", value |-> None,
          commands |-> <<>>, current_notebook_id |-> current]
    ELSE IF ~page.loads
    THEN [error |-> "NavigationError: Failed to navigate to notebook",
          value |-> None, commands |-> <<"get", "find_element">>,
          current_notebook_id |-> notebook_id]
    ELSE [error |-> None, value |-> page.current_url,
          commands |-> <<"get", "find_element", "current_url">>,
          current_notebook_id |-> notebook_id]

\* NotebookLMClient.navigate_to_notebook with _navigate_to_notebook_sync
client_navigate_to_notebook(drv, current, notebook_id, page) ==
    IF drv = NoDriver
    THEN [error |-> "NavigationError: Browser not started", value |-> None,
          commands |-> <<>>, current_notebook_id |-> current]
    ELSE IF ~page.loads
    THEN [error |-> "NavigationError: Failed to navigate to notebook",
          value |-> None, commands |-> <<"get", "find_element">>,
          current_notebook_id |-> current]
    ELSE [error |-> None, value |-> page.current_url,
          commands |-> <<"get", "find_element", "current_url">>,
          current_notebook_id |-> notebook_id]

\* close that leaves the authentication flag alone
client_close_KeepsFlag(drv, authenticated, quits) ==
    IF drv = NoDriver
    THEN [error |-> None, commands |-> <<>>, driver |-> drv,
          _is_authenticated |-> authenticated]
    ELSE IF ~quits
    THEN [error |-> "WebDriverException", commands |-> <<"quit">>,
          driver |-> drv, _is_authenticated |-> authenticated]
    ELSE [error |-> None, commands |-> <<"quit">>, driver |-> NoDriver,
          _is_authenticated |-> authenticated]

\* NotebookLMClient.close; quits: driver.quit() returns
client_close(drv, authenticated, quits) ==
    IF drv = NoDriver
    THEN [error |-> None, commands |-> <<>>, driver |-> drv,
          _is_authenticated |-> authenticated]
    ELSE IF ~quits
    THEN [error |-> "WebDriverException", commands |-> <<"quit">>,
          driver |-> drv, _is_authenticated |-> authenticated]
    ELSE [error |-> None, commands |-> <<"quit">>, driver |-> NoDriver,
          _is_authenticated |-> FALSE]

\* NotebookLMClient.get_response(wait_for_completion=False)
client_get_response(drv, page) ==
    IF drv = NoDriver
    THEN [error |-> "ChatError: Browser not ready", value |-> None,
          commands |-> <<>>]
    ELSE [error |-> None, value |-> _get_current_response(drv, page),
          commands |-> SelectSeq(<<"find_elements", "text">>,
                                 LAMBDA c : c \in ExtractorCommands(drv, page))]

\* the client as the call finds it
Before ==
    [driver |-> driver, _is_authenticated |-> _is_authenticated,
     current_notebook_id |-> current_notebook_id]

sessionVars == <<config, closing, call, trace, serverVars, cli>>

SessionInit ==
    /\ driver = NoDriver
    /\ _is_authenticated = FALSE
    /\ config \in [response_stability_checks : {1},
                    default_notebook_id : {None, "nb1"}]
    /\ current_notebook_id = config.default_notebook_id
    /\ closing = "idle"
    /\ call = IdleCall
    /\ trace = NoTrace
    /\ client = None
    /\ task = [t \in Tasks |-> IdleTask]
    /\ argument = NoCall
    /\ returned = NoCall
    /\ cli = NoCommand

\* await client.start()
SessionStart ==
    /\ argument' = [fn |-> "start", before |-> Before]
    /\ returned' = [fn |-> "start", error |-> None, value |-> None,
                    commands |-> <<>>]
    /\ driver' = Open
    /\ UNCHANGED <<_is_authenticated, current_notebook_id, sessionVars>>

\* await client.authenticate()
SessionAuthenticate(page) ==
    LET did == client_authenticate(driver, _is_authenticated, page)
    IN  /\ argument' = [fn |-> "authenticate", before |-> Before, page |-> page]
        /\ returned' = [fn |-> "authenticate", error |-> did.error,
                        value |-> did.value, commands |-> did.commands]
        /\ _is_authenticated' = did._is_authenticated
        /\ UNCHANGED <<driver, current_notebook_id, sessionVars>>

\* await client.send_message(message); current_url is where the browser
\* is when the call is made
SessionSend(current_url, navigates, chat_input, submits) ==
    LET browser == [at_notebook |->
                        /\ current_notebook_id # None
                        /\ Contains(current_url, expected_url(current_notebook_id)),
                    navigates |-> navigates, chat_input |-> chat_input,
                    submits |-> submits]
        did == client_send_message(driver, _is_authenticated,
                                   current_notebook_id, browser)
    IN  /\ argument' = [fn |-> "send_message", before |-> Before,
                        current_url |-> current_url]
        /\ returned' = [fn |-> "send_message", error |-> did.error,
                        value |-> None, commands |-> did.commands]
        /\ UNCHANGED <<driver, _is_authenticated, current_notebook_id, sessionVars>>

\* await client.get_response(wait_for_completion=False)
SessionGetResponse(page) ==
    LET did == client_get_response(driver, page)
    IN  /\ argument' = [fn |-> "get_response", before |-> Before]
        /\ returned' = [fn |-> "get_response", error |-> did.error,
                        value |-> did.value, commands |-> did.commands]
        /\ UNCHANGED <<driver, _is_authenticated, current_notebook_id, sessionVars>>

\* await client.navigate_to_notebook(notebook_id)
SessionNavigate(notebook_id, page) ==
    LET did == client_navigate_to_notebook(driver, current_notebook_id,
                                           notebook_id, page)
    IN  /\ argument' = [fn |-> "navigate_to_notebook", before |-> Before,
                        notebook_id |-> notebook_id]
        /\ returned' = [fn |-> "navigate_to_notebook", error |-> did.error,
                        value |-> did.value, commands |-> did.commands]
        /\ current_notebook_id' = did.current_notebook_id
        /\ UNCHANGED <<driver, _is_authenticated, sessionVars>>

\* await client.close()
SessionClose(quits) ==
    LET did == client_close(driver, _is_authenticated, quits)
    IN  /\ argument' = [fn |-> "close", before |-> Before]
        /\ returned' = [fn |-> "close", error |-> did.error, value |-> None,
                        commands |-> did.commands]
        /\ driver' = did.driver
        /\ _is_authenticated' = did._is_authenticated
        /\ UNCHANGED <<current_notebook_id, sessionVars>>

SessionNext ==
    \/ SessionStart
    \/ \E page \in Loads : SessionAuthenticate(page)
    \/ \E current_url \in SessionUrls, navigates, chat_input, submits \in BOOLEAN :
           SessionSend(current_url, navigates, chat_input, submits)
    \/ \E page \in Pages : SessionGetResponse(page)
    \/ \E notebook_id \in Notebooks, page \in Loads :
           SessionNavigate(notebook_id, page)
    \/ \E quits \in BOOLEAN : SessionClose(quits)

SessionSpec == SessionInit /\ [][SessionNext]_vars

(***************************************************************************)
(* cli.py: the init command with guided_setup, and the import-profile and  *)
(* export-profile commands.  cli holds the command that runs, with the     *)
(* configuration file and the directories it works on.                     *)
(***************************************************************************)
\* auth.profile_dir of the configuration, and another directory
DefaultProfileDir == "chrome_profile_notebooklm"
ProfilePaths == {DefaultProfileDir, "backup"}

\* what is at a path: nothing, a regular file, or a directory with the
\* files of one or another browser profile, or with a part of a profile
Missing == "missing"
RegularFile == "file"
Directories == {"profile A", "profile B", "partial copy"}
FileSystems == [ProfilePaths -> {Missing, RegularFile, "profile A", "profile B"}]

\* the body of the try block with the destination removed first
copy_profile_RemovesFirst(fs, source, dest, copies) ==
    LET removed == IF fs[dest] \in Directories
                   THEN [fs EXCEPT ![dest] = Missing] ELSE fs
    IN  IF fs[dest] = RegularFile
        THEN [fs |-> fs, error |-> "NotADirectoryError"]
        ELSE IF removed[source] = Missing
        THEN [fs |-> removed, error |-> "ConfigurationError: Source profile not found"]
        ELSE IF removed[source] = RegularFile
        THEN [fs |-> removed, error |-> "NotADirectoryError"]
        ELSE IF ~copies
        THEN [fs |-> [removed EXCEPT ![dest] = "partial copy"], error |-> "Error"]
        ELSE [fs |-> [removed EXCEPT ![dest] = removed[source]], error |-> None]

\* the body of the try block of import_profile and export_profile:
\* source.exists(), dest.exists(), rmtree(dest), copytree(source, dest);
\* copies: copytree copies every file.  The file system afterwards and the
\* exception raised (None when the block ends)
copy_profile(fs, source, dest, copies) ==
    IF fs[source] = Missing
    THEN [fs |-> fs, error |-> "ConfigurationError: Source profile not found"]
    ELSE IF fs[dest] = RegularFile
    THEN [fs |-> fs, error |-> "NotADirectoryError"]
    ELSE LET removed == IF fs[dest] \in Directories
                        THEN [fs EXCEPT ![dest] = Missing] ELSE fs
         IN  IF removed[source] = Missing
             THEN [fs |-> removed, error |-> "FileNotFoundError"]
             ELSE IF removed[source] = RegularFile
             THEN [fs |-> removed, error |-> "NotADirectoryError"]
             ELSE IF ~copies
             THEN [fs |-> [removed EXCEPT ![dest] = "partial copy"],
                   error |-> "Error"]
             ELSE [fs |-> [removed EXCEPT ![dest] = removed[source]],
                   error |-> None]

\* source_profile = profile or config.auth.profile_dir
source_profile(profile) ==
    IF profile \in {None, ""} THEN DefaultProfileDir ELSE profile

\* guided_setup's result with a saved profile counting as a success
setup_result_ProfileSaved(send_error, auth_success) == TRUE

\* setup_success after the test message: True when send_message returned,
\* else auth_success
setup_result(send_error, auth_success) ==
    IF send_error = None THEN TRUE ELSE auth_success = "True"

\* the configuration file create_default_config writes
DefaultConfigFile(notebook_id) ==
    [exists |-> TRUE, headless |-> FALSE, default_notebook_id |-> notebook_id]
\* no configuration file yet, and no test message yet
NoConfigFile == [exists |-> FALSE, headless |-> FALSE, default_notebook_id |-> None]
Unsent == [authenticated |-> FALSE, error |-> "unsent"]

SetupInit ==
    /\ driver = NoDriver
    /\ _is_authenticated = FALSE
    /\ config = [response_stability_checks |-> 1, default_notebook_id |-> None,
                 headless |-> FALSE]
    /\ current_notebook_id = None
    /\ closing = "idle"
    /\ call = IdleCall
    /\ trace = NoTrace
    /\ client = None
    /\ task = [t \in Tasks |-> IdleTask]
    /\ argument = NoCall
    /\ returned = NoCall
    /\ cli = NoCommand

setupVars == <<closing, call, trace, serverVars, callVars>>

\* import_profile and export_profile, which run without an await
InvokeProfile(command, profile, to, fs, copies) ==
    /\ cli = NoCommand
    /\ LET source == IF command = "export-profile" THEN source_profile(profile)
                     ELSE profile
           did == copy_profile(fs, source, to, copies)
       IN  cli' = [command |-> command, pc |-> "ended", source |-> source,
                   dest |-> to, before |-> fs, fs |-> did.fs,
                   error |-> did.error,
                   exit_code |-> IF did.error = None THEN 0 ELSE 1]
    /\ UNCHANGED <<driver, _is_authenticated, current_notebook_id, config, setupVars>>

\* init up to asyncio.run(guided_setup(temp_config)); extracted is what
\* extract_notebook_id(notebook_url) gives
InvokeInit(extracted, headless) ==
    /\ cli = NoCommand
    /\ LET c == [command |-> "init", pc |-> "start", calls |-> <<>>,
                 auths |-> <<>>, sent |-> Unsent, setup_success |-> FALSE,
                 returns |-> FALSE, raised |-> FALSE, exit_code |-> 0,
                 config_file |-> NoConfigFile]
       IN  IF extracted.raised # "None"
           THEN /\ cli' = [c EXCEPT !.pc = "ended", !.raised = TRUE, !.exit_code = 1]
                /\ UNCHANGED <<config, current_notebook_id>>
           ELSE /\ cli' = [c EXCEPT !.config_file = DefaultConfigFile(extracted.value)]
                /\ config' = [response_stability_checks |-> 1,
                              default_notebook_id |-> extracted.value,
                              headless |-> headless]
                /\ current_notebook_id' = extracted.value
    /\ UNCHANGED <<driver, _is_authenticated, setupVars>>

\* an exception in the try block of guided_setup: the finally clause runs
SetupRaise(c) == [c EXCEPT !.raised = TRUE, !.pc = "close"]

\* await client.start()
SetupStart(ok) ==
    /\ cli.command = "init"
    /\ cli.pc = "start"
    /\ driver' = IF ok THEN Open ELSE driver
    /\ LET c == [cli EXCEPT !.calls = Append(@, "start")]
       IN  cli' = IF ~ok \/ config.default_notebook_id = None THEN SetupRaise(c)
                  ELSE [c EXCEPT !.pc = "navigate"]
    /\ UNCHANGED <<_is_authenticated, current_notebook_id, config, setupVars>>

\* await client.navigate_to_notebook(config.default_notebook_id)
SetupNavigate(page) ==
    /\ cli.command = "init"
    /\ cli.pc = "navigate"
    /\ LET did == client_navigate_to_notebook(driver, current_notebook_id,
                                              config.default_notebook_id, page)
           c == [cli EXCEPT !.calls = Append(@, "navigate_to_notebook")]
       IN  /\ current_notebook_id' = did.current_notebook_id
           /\ cli' = IF did.error # None THEN SetupRaise(c)
                     ELSE [c EXCEPT !.pc = "authenticate"]
    /\ UNCHANGED <<driver, _is_authenticated, config, setupVars>>

\* input("Press Enter when login is complete..."), which raises EOFError
\* when the standard input is closed
SetupInput(entered) ==
    /\ cli.command = "init"
    /\ cli.pc = "input"
    /\ cli' = IF entered THEN [cli EXCEPT !.pc = "authenticate again"]
              ELSE SetupRaise(cli)
    /\ UNCHANGED <<driver, _is_authenticated, current_notebook_id, config, setupVars>>

\* auth_success = await client.authenticate(), the first time and after
\* the manual login
SetupAuthenticate(page) ==
    /\ cli.command = "init"
    /\ cli.pc \in {"authenticate", "authenticate again"}
    /\ LET did == client_authenticate(driver, _is_authenticated, page)
           c == [cli EXCEPT !.calls = Append(@, "authenticate")]
       IN  /\ _is_authenticated' = did._is_authenticated
           /\ cli' = IF did.error # None THEN SetupRaise(c)
                     ELSE [c EXCEPT !.auths = Append(@, did.value),
                                    !.pc = IF did.value = "False"
                                              /\ cli.pc = "authenticate"
                                           THEN IF config.headless
                                                THEN "authenticate again"
                                                ELSE "input"
                                           ELSE "send"]
    /\ UNCHANGED <<driver, current_notebook_id, config, setupVars>>

\* the test message, and return setup_success
SetupSend(browser) ==
    /\ cli.command = "init"
    /\ cli.pc = "send"
    /\ LET did == client_send_message(driver, _is_authenticated,
                                      current_notebook_id, browser)
       IN  cli' = [cli EXCEPT
                     !.calls = Append(@, "send_message"),
                     !.sent = [authenticated |-> _is_authenticated,
                               error |-> did.error],
                     !.setup_success =
                         setup_result(did.error, cli.auths[Len(cli.auths)]),
                     !.returns = TRUE,
                     !.pc = "close"]
    /\ UNCHANGED <<driver, _is_authenticated, current_notebook_id, config, setupVars>>

\* finally: await client.close(); an exception of close() replaces the
\* return
SetupClose(quits) ==
    /\ cli.command = "init"
    /\ cli.pc = "close"
    /\ LET did == client_close(driver, _is_authenticated, quits)
       IN  /\ driver' = did.driver
           /\ _is_authenticated' = did._is_authenticated
           /\ cli' = [cli EXCEPT !.calls = Append(@, "close"),
                                 !.raised = @ \/ did.error # None,
                                 !.returns = @ /\ did.error = None,
                                 !.pc = "finish"]
    /\ UNCHANGED <<current_notebook_id, config, setupVars>>

\* init after asyncio.run: update_config_to_headless when guided_setup
\* has returned True, sys.exit(1) when it has raised; written: the
\* configuration file could be read and written again
InitFinish(written) ==
    /\ cli.command = "init"
    /\ cli.pc = "finish"
    /\ cli' = IF cli.raised
              THEN [cli EXCEPT !.pc = "ended", !.exit_code = 1]
              ELSE IF cli.setup_success /\ written
              THEN [cli EXCEPT !.pc = "ended", !.config_file.headless = TRUE]
              ELSE [cli EXCEPT !.pc = "ended"]
    /\ UNCHANGED <<driver, _is_authenticated, current_notebook_id, config, setupVars>>

\* what extract_notebook_id gives for the NOTEBOOK_URL of init
ExtractedIds ==
    [raised : {"None"}, value : Notebooks]
        \cup {[raised |-> "ValueError", value |-> None]}

SetupNext ==
    \/ \E command \in {"import-profile"}, profile, to \in ProfilePaths,
          fs \in FileSystems, copies \in BOOLEAN :
           InvokeProfile(command, profile, to, fs, copies)
    \/ \E command \in {"export-profile"}, profile \in ProfilePaths \cup {None, ""},
          to \in ProfilePaths, fs \in FileSystems, copies \in BOOLEAN :
           InvokeProfile(command, profile, to, fs, copies)
    \/ \E extracted \in ExtractedIds, headless \in BOOLEAN :
           InvokeInit(extracted, headless)
    \/ \E ok \in BOOLEAN : SetupStart(ok)
    \/ \E page \in Loads : SetupNavigate(page)
    \/ \E page \in Loads : SetupAuthenticate(page)
    \/ \E entered \in BOOLEAN : SetupInput(entered)
    \/ \E browser \in Browsers : SetupSend(browser)
    \/ \E quits \in BOOLEAN : SetupClose(quits)
    \/ \E written \in BOOLEAN : InitFinish(written)

SetupSpec == SetupInit /\ [][SetupNext]_vars


(***************************************************************************)
(* Claims about the session of a client.                                   *)
(***************************************************************************)
\* the call recorded in argument found the client without a driver
CalledWithoutDriver == argument.fn # "None" /\ argument.before.driver = NoDriver

\* the exception each guarded method raises on a client without a driver
GuardError ==
    [authenticate |-> "AuthenticationError: Browser not started",
     send_message |-> "ChatError: Not authenticated or browser not ready",
     get_response |-> "ChatError: Browser not ready",
     navigate_to_notebook |-> "NavigationError: Browser not started"]

\* C31: after close() has returned normally the client has no driver and
\* is not authenticated; a close() of a client without a driver calls
\* nothing and changes nothing; and on a client without a driver (which is
\* so until start() is called) authenticate raises AuthenticationError,
\* send_message and get_response raise ChatError and navigate_to_notebook
\* raises NavigationError, without a call to the browser and leaving the
\* client as it was.
C31_ClosedClientRefusesCalls ==
    /\ (returned.fn = "close" /\ returned.error = None) =>
           driver = NoDriver /\ ~_is_authenticated
    /\ driver = NoDriver => ~_is_authenticated
    /\ (CalledWithoutDriver /\ argument.fn = "close") =>
           /\ returned.error = None
           /\ returned.commands = <<>>
           /\ Before = argument.before
    /\ (CalledWithoutDriver /\ argument.fn \in DOMAIN GuardError) =>
           /\ returned.error = GuardError[argument.fn]
           /\ returned.commands = <<>>
           /\ Before = argument.before

\* close() has just shut the browser of an authenticated client
C31_Witness ==
    /\ returned.fn = "close"
    /\ returned.error = None
    /\ returned.commands = <<"quit">>
    /\ argument.before.driver = Open
    /\ argument.before._is_authenticated
    /\ driver = NoDriver
    /\ ~_is_authenticated

PageLoadTimedOut == "AuthenticationError: Page load timed out during authentication"

\* C32: when authenticate() returns a value, _is_authenticated is that
\* value, and it is True exactly when the URL after the navigation contains
\* neither 'signin' nor 'accounts.google.com'; when it raises
\* AuthenticationError for a page-load timeout, _is_authenticated is what
\* it was before the call.
C32_AuthenticateSetsFlagToResult ==
    returned.fn = "authenticate" =>
        /\ returned.error = None =>
               /\ returned.value = PyBool(_is_authenticated)
               /\ _is_authenticated <=>
                      /\ ~Contains(argument.page.current_url, SignInWord)
                      /\ ~Contains(argument.page.current_url, AccountsHost)
        /\ returned.error = PageLoadTimedOut =>
               _is_authenticated = argument.before._is_authenticated

\* the page load of an authenticate() times out on a client that was
\* authenticated
C32_Witness ==
    /\ returned.fn = "authenticate"
    /\ returned.error = PageLoadTimedOut
    /\ argument.before.driver = Open
    /\ argument.before._is_authenticated
    /\ _is_authenticated

\* the send_message recorded in argument got past its guard with a
\* notebook set and the browser elsewhere
SentFromElsewhere ==
    /\ argument.fn = "send_message"
    /\ argument.before.driver # NoDriver
    /\ argument.before._is_authenticated
    /\ argument.before.current_notebook_id # None
    /\ ~Contains(argument.current_url,
                 expected_url(argument.before.current_notebook_id))

\* C33: navigate_to_notebook sets current_notebook_id to the requested id
\* when the navigation succeeds and leaves it unchanged when it raises
\* NavigationError; a send_message that finds a notebook set and a browser
\* URL without 'notebook/<current_notebook_id>' navigates before it looks
\* for the chat input and types.
C33_NotebookSetOnlyOnSuccess ==
    /\ returned.fn = "navigate_to_notebook" =>
           current_notebook_id =
               IF returned.error = None THEN argument.notebook_id
               ELSE argument.before.current_notebook_id
    /\ SentFromElsewhere =>
           /\ returned.commands # <<>>
           /\ Head(returned.commands) = "get"
           /\ \A i \in 2..Len(returned.commands) : returned.commands[i] # "get"

\* a navigation to another notebook has timed out
C33_Witness ==
    /\ returned.fn = "navigate_to_notebook"
    /\ returned.error = "NavigationError: Failed to navigate to notebook"
    /\ argument.before.driver = Open
    /\ argument.before.current_notebook_id = "nb1"
    /\ argument.notebook_id = "nb2"
    /\ current_notebook_id = "nb1"

(***************************************************************************)
(* Claims about init and the profile commands.                             *)
(***************************************************************************)
\* the last authenticate() of guided_setup returned True
LastAuthenticateSucceeded ==
    cli.auths # <<>> /\ cli.auths[Len(cli.auths)] = "True"

\* C35: guided_setup returns True only if the client was authenticated
\* when the test message was attempted, the last authenticate() having
\* returned True; init sets headless to true in the configuration file
\* only then; and on every path of guided_setup the last call of its
\* client is close().
C35_HeadlessOnlyAfterAuthentication ==
    cli.command = "init" =>
        /\ (cli.returns /\ cli.setup_success) =>
               /\ cli.sent.authenticated
               /\ LastAuthenticateSucceeded
        /\ cli.config_file.headless =>
               /\ cli.pc = "ended"
               /\ cli.exit_code = 0
               /\ cli.sent.authenticated
               /\ LastAuthenticateSucceeded
        /\ (cli.pc \in {"finish", "ended"} /\ cli.calls # <<>>) =>
               cli.calls[Len(cli.calls)] = "close"
        /\ (cli.pc = "ended" /\ cli.calls = <<>>) => ~cli.config_file.exists

\* init has set headless to true after a manual login, the test message
\* having failed in the page
C35_Witness ==
    /\ cli.command = "init"
    /\ cli.pc = "ended"
    /\ cli.config_file.headless
    /\ cli.auths = <<"False", "True">>
    /\ cli.sent.authenticated
    /\ cli.sent.error = "ChatError: Could not find chat input element"
    /\ cli.calls = <<"start", "navigate_to_notebook", "authenticate",
                     "authenticate", "send_message", "close">>

ProfileCommands == {"import-profile", "export-profile"}

\* C36: import_profile and export_profile change the destination only
\* when the source was there; when the source is missing the command ends
\* with exit code 1 and nothing is removed.
C36_MissingSourceLeavesDestination ==
    cli.command \in ProfileCommands =>
        /\ cli.fs[cli.dest] # cli.before[cli.dest] =>
               cli.before[cli.source] # Missing
        /\ cli.before[cli.source] = Missing =>
               /\ cli.exit_code = 1
               /\ cli.fs = cli.before

\* export-profile without --profile, the default profile directory being
\* missing and the destination holding a profile
C36_Witness ==
    /\ cli.command = "export-profile"
    /\ cli.source = DefaultProfileDir
    /\ cli.before[cli.source] = Missing
    /\ cli.dest = "backup"
    /\ cli.before[cli.dest] = "profile B"
    /\ cli.fs[cli.dest] = "profile B"
    /\ cli.exit_code = 1


====
